---- MODULE Spec2Model ----
(***************************************************************************)
(* Model of the nonchalant live-media server: the stream bus (ring buffer, *)
(* stream, registry), the RTMP publisher session that binds to it, the     *)
(* RTMP chunk stream and AMF0 commands, and the FLV subscriber side.       *)
(*                                                                         *)
(* Specifications:                                                         *)
(*   SpecRing     one RingBuffer, one writer goroutine and one reader      *)
(*                goroutine, interleaved at their atomic steps             *)
(*   SpecRingSeq  one RingBuffer driven by whole Write/Read calls          *)
(*   Spec         the server: RTMP connection handlers and HTTP-FLV        *)
(*                handlers on a shared registry, interleaved at their      *)
(*                critical sections and at the rings' atomic steps         *)
(*   SpecFair     Spec with every handler goroutine scheduled              *)
(*   SpecSlot     one Stream's publisher slot under AttachPublisher and    *)
(*                DetachPublisher calls                                    *)
(*   SpecRegistry one Registry under GetOrCreate and Remove calls          *)
(*   SpecStream   one Stream with a publishing goroutine, consumers and    *)
(*                DetachPublisher, interleaved at Publish's critical       *)
(*                sections and at the rings' atomic steps                  *)
(*   SpecStreamFair  SpecStream with the publishing goroutine scheduled    *)
(*   SpecConn     one RTMP connection at the level of bytes: the chunk     *)
(*                parser, AMF0 commands, the session and its replies       *)
(*   SpecChunk    messages written with WriteChunk and read back by a      *)
(*                ChunkParser                                              *)
(*   SpecLocks    goroutines calling the registry and its streams, with    *)
(*                every Lock and Unlock of the mutexes a step              *)
(***************************************************************************)
EXTENDS Integers, Sequences, FiniteSets, TLC

\* ------------------------------------------------------------------ bounds
MaxWrites == 5
MaxReads == 6
RingCapacityMax == 2

\* ------------------------------------------------------- program constants
BackpressureDropOldest == 0
BackpressureDropNewest == 1
MessageTypeAudio == 0
MessageTypeVideo == 1
MessageTypeMetadata == 2

\* ---------------------------------------------------------- uint32 helpers
\* A uint32 is the pair <<high 16 bits, low 16 bits>>: its value is
\* hi * 2^16 + lo, and all arithmetic wraps at 2^32 as Go's uint32 does.
Half == 2^16
U32(n) == <<(n \div Half) % Half, n % Half>>
Add32(a, b) ==
    LET lo == a[2] + b[2] IN
    <<(a[1] + b[1] + (lo \div Half)) % Half, lo % Half>>
Sub32(a, b) ==
    LET lo == a[2] - b[2]
        borrow == IF lo < 0 THEN 1 ELSE 0 IN
    <<(a[1] - b[1] - borrow + 2 * Half) % Half, (lo + Half) % Half>>
Lt32(a, b) == a[1] < b[1] \/ (a[1] = b[1] /\ a[2] < b[2])
Geq32(a, b) == ~Lt32(a, b)
\* The uint32 values just below the wrap: 2^32 - n for 1 <= n <= 2^16.
Below32(n) == <<Half - 1, Half - n>>

RECURSIVE BitAnd(_, _)
BitAnd(x, y) ==
    IF x = 0 \/ y = 0 THEN 0
    ELSE (x % 2) * (y % 2) + 2 * BitAnd(x \div 2, y \div 2)
And32(a, b) == <<BitAnd(a[1], b[1]), BitAnd(a[2], b[2])>>
\* A uint32 used as a slice index (always below 2^16 here).
Index32(a) == a[1] * Half + a[2]

\* F applied to v, v being computed once however often F refers to it.
Bind(v, F(_)) == CHOOSE r \in {F(x) : x \in {v}} : TRUE

\* ------------------------------------------------------------ MediaMessage
\* A *MediaMessage; id is the identity of the pointed-to object (0 = nil).
NilMsg == [id |-> 0, Type |-> 0, Timestamp |-> 0, IsInit |-> FALSE, Payload |-> <<>>]

MediaMessage(id, type, ts, isInit, payload) ==
    [id |-> id, Type |-> type, Timestamp |-> ts, IsInit |-> isInit, Payload |-> payload]

\* The i-th message a ring test writes: msg.Timestamp = uint32(i).
TestMessage(i) == MediaMessage(i, MessageTypeAudio, i, FALSE, <<>>)

\* -------------------------------------------------------------- RingBuffer
RECURSIVE RoundUpPow2(_, _)
RoundUpPow2(actualSize, capacity) ==
    IF Lt32(actualSize, capacity) THEN RoundUpPow2(Add32(actualSize, actualSize), capacity)
    ELSE actualSize

NewRingBuffer(capacity, strategy) ==
    LET actualSize == RoundUpPow2(U32(1), U32(capacity)) IN
    [buffer   |-> [i \in 0..(Index32(actualSize) - 1) |-> NilMsg],
     size     |-> actualSize,
     mask     |-> Sub32(actualSize, U32(1)),
     writePos |-> U32(0),
     readPos  |-> U32(0),
     strategy |-> strategy,
     dropped  |-> 0]

\* Slot index of a free-running position.
SlotIndex(rbuf, pos) == Index32(And32(pos, rbuf.mask))

\* A full test that lets one message too many in before it reports full.
IsFullStrict(rbuf, writePos, readPos) == Lt32(rbuf.size, Sub32(writePos, readPos))

\* Full test of Write on its two loaded positions.
IsFull(rbuf, writePos, readPos) == Geq32(Sub32(writePos, readPos), rbuf.size)

\* A bug the ring once had: the stored write position is masked while the read
\* position runs free.
NextWritePosMasked(rbuf, writePos) == And32(Add32(writePos, U32(1)), rbuf.mask)

\* The write position Write stores after filling the slot at writePos.
NextWritePos(rbuf, writePos) == Add32(writePos, U32(1))

\* Local state of a Write call in progress / at rest.
WriteIdle == [pc |-> "idle", msg |-> NilMsg, writePos |-> U32(0), readPos |-> U32(0), ret |-> FALSE]
WriteCall(msg) == [pc |-> "loadW", msg |-> msg, writePos |-> U32(0), readPos |-> U32(0), ret |-> FALSE]

\* One atomic step of RingBuffer.Write: each step is one access to shared
\* memory together with the local computation that follows it.
WriteStep(rbuf, w) ==
    CASE w.pc = "loadW" ->
            IF w.msg = NilMsg
            THEN [rb |-> rbuf, loc |-> [w EXCEPT !.pc = "done", !.ret = FALSE]]
            ELSE [rb |-> rbuf, loc |-> [w EXCEPT !.pc = "loadR", !.writePos = rbuf.writePos]]
      [] w.pc = "loadR" ->
            [rb |-> rbuf,
             loc |-> [w EXCEPT !.readPos = rbuf.readPos,
                               !.pc = IF IsFull(rbuf, w.writePos, rbuf.readPos)
                                      THEN "count" ELSE "store"]]
      [] w.pc = "count" ->
            [rb |-> [rbuf EXCEPT !.dropped = rbuf.dropped + 1],
             loc |-> IF rbuf.strategy = BackpressureDropOldest
                     THEN [w EXCEPT !.pc = "advance"]
                     ELSE [w EXCEPT !.pc = "done", !.ret = FALSE]]
      [] w.pc = "advance" ->
            [rb |-> [rbuf EXCEPT !.readPos = Add32(rbuf.readPos, U32(1))],
             loc |-> [w EXCEPT !.pc = "store"]]
      [] w.pc = "store" ->
            [rb |-> [rbuf EXCEPT !.buffer[SlotIndex(rbuf, w.writePos)] = w.msg],
             loc |-> [w EXCEPT !.pc = "publish"]]
      [] w.pc = "publish" ->
            [rb |-> [rbuf EXCEPT !.writePos = NextWritePos(rbuf, w.writePos)],
             loc |-> [w EXCEPT !.pc = "done", !.ret = TRUE]]

\* Local state of a Read call.
ReadIdle == [pc |-> "idle", readPos |-> U32(0), writePos |-> U32(0), msg |-> NilMsg, ok |-> FALSE]
ReadCall == [pc |-> "loadR", readPos |-> U32(0), writePos |-> U32(0), msg |-> NilMsg, ok |-> FALSE]

\* One atomic step of RingBuffer.Read.
ReadStep(rbuf, r) ==
    CASE r.pc = "loadR" ->
            [rb |-> rbuf, loc |-> [r EXCEPT !.pc = "loadW", !.readPos = rbuf.readPos]]
      [] r.pc = "loadW" ->
            [rb |-> rbuf,
             loc |-> IF r.readPos = rbuf.writePos
                     THEN [r EXCEPT !.writePos = rbuf.writePos, !.pc = "done",
                                    !.msg = NilMsg, !.ok = FALSE]
                     ELSE [r EXCEPT !.writePos = rbuf.writePos, !.pc = "fetch"]]
      [] r.pc = "fetch" ->
            [rb |-> rbuf,
             loc |-> [r EXCEPT !.msg = rbuf.buffer[SlotIndex(rbuf, r.readPos)],
                               !.pc = "advance"]]
      [] r.pc = "advance" ->
            [rb |-> [rbuf EXCEPT !.readPos = Add32(rbuf.readPos, U32(1))],
             loc |-> [r EXCEPT !.pc = "done", !.ok = TRUE]]

\* A whole call, run to completion with no other goroutine in between.
RECURSIVE RunWrite(_, _)
RunWrite(rbuf, w) ==
    IF w.pc = "done" THEN [rb |-> rbuf, ret |-> w.ret]
    ELSE CHOOSE r \in {RunWrite(s.rb, s.loc) : s \in {WriteStep(rbuf, w)}} : TRUE

RECURSIVE RunRead(_, _)
RunRead(rbuf, r) ==
    IF r.pc = "done" THEN [rb |-> rbuf, msg |-> r.msg, ok |-> r.ok]
    ELSE LET s == ReadStep(rbuf, r) IN RunRead(s.rb, s.loc)

Write(rbuf, msg) == RunWrite(rbuf, WriteCall(msg))
Read(rbuf) == RunRead(rbuf, ReadCall)
Dropped(rbuf) == rbuf.dropped
Available(rbuf) == Sub32(rbuf.size, Sub32(rbuf.writePos, rbuf.readPos))

\* A ring whose counters have already run for `start` write/read pairs: the
\* state NewRingBuffer's ring is in after that many Write-then-Read calls.
AgedRingBuffer(capacity, strategy, start) ==
    [NewRingBuffer(capacity, strategy) EXCEPT !.writePos = start, !.readPos = start]

\* Counter values the ring starts from: fresh, and just below the uint32 wrap.
StartPositions == {U32(0), Below32(2)}

\* ---------------------------------------------------------- message pool
\* AcquireMessage takes a message object from the pool and resets Type,
\* Timestamp and Payload. No caller outside the tests releases a message, so
\* the pool hands out fresh zero-valued objects. id names the object.
AcquireMessage(id) == MediaMessage(id, 0, 0, FALSE, <<>>)

\* The two sync.Pools, by the calls made on them. AcquireMessage is a Get on
\* messagePool and AcquirePayload a Get on payloadPool; ReleaseMessage and
\* ReleasePayload are the Puts.
NewPools == [messageGets |-> 0, messagePuts |-> 0, payloadGets |-> 0, payloadPuts |-> 0]

PoolAcquireMessage(p) == [p EXCEPT !.messageGets = @ + 1]

PoolAcquirePayload(p) == [p EXCEPT !.payloadGets = @ + 1]

\* What Clone takes from the pools: a message, and a payload buffer when the
\* original's payload is not empty.
PoolClone(p, m) ==
    IF Len(m.Payload) > 0 THEN PoolAcquirePayload(PoolAcquireMessage(p))
    ELSE PoolAcquireMessage(p)

\* The identity of the object Clone acquires for a copy of message id.
CloneId(id) == 0 - id

\* Clone: a newly acquired message that is assigned the original's Type and
\* Timestamp and, when the payload is not empty, a copy of its bytes.
Clone(m) ==
    [AcquireMessage(CloneId(m.id)) EXCEPT
        !.Type      = m.Type,
        !.Timestamp = m.Timestamp,
        !.Payload   = IF Len(m.Payload) > 0 THEN m.Payload ELSE <<>>]

\* --------------------------------------------------------- RTMP publisher
RtmpMessageTypeAudio == 8
RtmpMessageTypeVideo == 9
RtmpMessageTypeDataAMF0 == 18

\* byte[0] lower nibble = codec id (7 = AVC), byte[1] = packet type 0.
isAVCSequenceHeader(payload) ==
    Len(payload) >= 2 /\ payload[1] % 16 = 7 /\ payload[2] = 0

\* byte[0] upper nibble = sound format (10 = AAC), byte[1] = packet type 0.
isAACSequenceHeader(payload) ==
    Len(payload) >= 2 /\ payload[1] \div 16 = 10 /\ payload[2] = 0

\* The "@setDataFrame" AMF0 string: marker 2, u16 length 13, the 13 bytes.
SetDataFramePrefix == <<64, 115, 101, 116, 68, 97, 116, 97, 70, 114, 97, 109, 101>>

stripSetDataFrame(payload) ==
    IF Len(payload) < 3 THEN payload
    ELSE IF payload[1] # 2 THEN payload
    ELSE LET strLen == payload[2] * 256 + payload[3]
             total  == 3 + strLen
         IN IF Len(payload) < total THEN payload
            ELSE IF SubSeq(payload, 4, 3 + strLen) = SetDataFramePrefix
                 THEN SubSeq(payload, total + 1, Len(payload))
                 ELSE payload

\* The message PublishAudio / PublishVideo / PublishMetadata hand to
\* Stream.Publish.
PublishAudio(id, timestamp, payload) ==
    MediaMessage(id, MessageTypeAudio, timestamp, isAACSequenceHeader(payload), payload)

PublishVideo(id, timestamp, payload) ==
    MediaMessage(id, MessageTypeVideo, timestamp, isAVCSequenceHeader(payload), payload)

PublishMetadata(id, timestamp, payload) ==
    MediaMessage(id, MessageTypeMetadata, timestamp, TRUE, stripSetDataFrame(payload))

\* The message HandleMediaMessage publishes for an RTMP message, NilMsg for
\* the message types it ignores.
MediaMessageFor(id, msgType, timestamp, body) ==
    CASE msgType = RtmpMessageTypeAudio    -> PublishAudio(id, timestamp, body)
      [] msgType = RtmpMessageTypeVideo    -> PublishVideo(id, timestamp, body)
      [] msgType = RtmpMessageTypeDataAMF0 -> PublishMetadata(id, timestamp, body)
      [] OTHER -> NilMsg

\* ------------------------------------------------- HTTP-FLV subscriber side
TagTypeAudio == 8
TagTypeVideo == 9
TagTypeScript == 18
VideoFrameKeyFrame == 1
StatusOK == 200
StatusBadRequest == 400
StatusNotFound == 404
StatusMethodNotAllowed == 405

IsVideoKeyframe(payload) ==
    Len(payload) >= 1 /\ payload[1] \div 16 = VideoFrameKeyFrame

\* An FLV tag; NilTag stands for a nil *Tag.
NilTag == [TagType |-> 0, Timestamp |-> 0, Data |-> <<>>]
NewTag(tagType, timestamp, data) ==
    [TagType |-> tagType, Timestamp |-> timestamp, Data |-> data]

MuxMessage(msg) ==
    CASE msg = NilMsg -> NilTag
      [] msg.Type = MessageTypeAudio    -> NewTag(TagTypeAudio, msg.Timestamp, msg.Payload)
      [] msg.Type = MessageTypeVideo    -> NewTag(TagTypeVideo, msg.Timestamp, msg.Payload)
      [] msg.Type = MessageTypeMetadata -> NewTag(TagTypeScript, msg.Timestamp, msg.Payload)
      [] OTHER -> NilTag

\* The HTTP-FLV Subscriber's own state: the keyframe gate, the timestamp
\* base, and the tags written to the response so far.
NewFlvSubscriber ==
    [gotKeyframe |-> FALSE, tsOffset |-> 0, tsBaseSet |-> FALSE, written |-> <<>>]

\* rebaseTimestamp: the subscriber after the call and the timestamp returned.
\* A rebase that passes the publisher's timestamp through.
rebaseTimestampAsStamped(sub, msg) ==
    [sub |-> sub, ts |-> IF msg.IsInit THEN 0 ELSE msg.Timestamp]

rebaseTimestamp(sub, msg) ==
    IF msg.IsInit THEN [sub |-> sub, ts |-> 0]
    ELSE LET s1 == IF ~sub.tsBaseSet
                   THEN [sub EXCEPT !.tsOffset = msg.Timestamp, !.tsBaseSet = TRUE]
                   ELSE sub
         IN [sub |-> s1,
             ts  |-> IF msg.Timestamp < s1.tsOffset THEN 0
                     ELSE msg.Timestamp - s1.tsOffset]

\* A gate that holds back video only.
GateDropsVideo(sub, msg) ==
    /\ ~sub.gotKeyframe
    /\ ~msg.IsInit
    /\ msg.Type = MessageTypeVideo
    /\ ~IsVideoKeyframe(msg.Payload)

\* The keyframe gate: TRUE when the message is dropped.
GateDrops(sub, msg) ==
    /\ ~sub.gotKeyframe
    /\ ~msg.IsInit
    /\ ~(msg.Type = MessageTypeVideo /\ IsVideoKeyframe(msg.Payload))

\* One iteration of the ProcessMessages loop on a message read from the ring.
ProcessMessage(sub, msg) ==
    IF GateDrops(sub, msg) THEN sub
    ELSE LET s1  == IF ~sub.gotKeyframe /\ ~msg.IsInit
                    THEN [sub EXCEPT !.gotKeyframe = TRUE] ELSE sub
             tag == MuxMessage(msg)
             rb1 == rebaseTimestamp(s1, msg)
         IN IF tag = NilTag THEN s1
            ELSE [rb1.sub EXCEPT !.written =
                     Append(rb1.sub.written, [tag EXCEPT !.Timestamp = rb1.ts])]

\* The response of an HTTP request as the handler's ResponseWriter builds it:
\* code is the status written (0 = none yet), header the handler's header
\* map, sent the header fields that went out with the status line, body what
\* was written after them.
NewResponse == [code |-> 0, header |-> {}, sent |-> {}, body |-> <<>>]

\* w.WriteHeader(code): the status line goes out with the header map as it is
\* then; a second call changes nothing.
RespWriteHeader(w, code) ==
    IF w.code # 0 THEN w ELSE [w EXCEPT !.code = code, !.sent = w.header]

\* w.Write: a first write sends status 200 and the header map before the bytes.
RespWrite(w, bytes) ==
    [RespWriteHeader(w, StatusOK) EXCEPT !.body = @ \o bytes]

\* w.Header().Set(name, value).
RespHeaderSet(w, name, value) ==
    [w EXCEPT !.header = {f \in @ : f[1] # name} \cup {<<name, value>>}]

\* w.(http.Flusher).Flush(): sends the status line if it has not gone out.
RespFlush(w) == RespWriteHeader(w, StatusOK)

\* A URL path is a sequence of pieces: "/" , ".flv" and runs of other
\* characters.
TrimPrefix(path, piece) ==
    IF Len(path) > 0 /\ path[1] = piece THEN Tail(path) ELSE path

HasSuffix(path, piece) == Len(path) > 0 /\ path[Len(path)] = piece

TrimSuffix(path, piece) ==
    IF HasSuffix(path, piece) THEN SubSeq(path, 1, Len(path) - 1) ELSE path

\* strings.SplitN(path, sep, 2): the path cut at its first separator.
SplitN2(path, sep) ==
    IF \E i \in 1..Len(path) : path[i] = sep
    THEN LET i == CHOOSE j \in 1..Len(path) :
                    path[j] = sep /\ \A k \in 1..(j - 1) : path[k] # sep
         IN <<SubSeq(path, 1, i - 1), SubSeq(path, i + 1, Len(path))>>
    ELSE <<path>>

\* The string a sequence of pieces spells.
RECURSIVE Join(_)
Join(pieces) ==
    IF pieces = <<>> THEN "" ELSE Head(pieces) \o Join(Tail(pieces))

\* A ParsePath that accepts a path of any extension.
ParsePathAnyExtension(urlPath) ==
    LET parts == SplitN2(SubSeq(TrimPrefix(urlPath, "/"), 1,
                                Len(TrimPrefix(urlPath, "/")) - 1), "/")
    IN IF Len(parts) # 2 THEN [ok |-> FALSE, app |-> "", name |-> ""]
       ELSE [ok |-> TRUE, app |-> Join(parts[1]), name |-> Join(parts[2])]

\* ServeHTTP's parsing of /{app}/{name}.flv: ok is FALSE for a path it
\* answers with 400.
ParsePath(urlPath) ==
    LET trimmed == TrimPrefix(urlPath, "/")
        parts   == SplitN2(TrimSuffix(trimmed, ".flv"), "/")
    IN IF ~HasSuffix(trimmed, ".flv") \/ Len(parts) # 2
       THEN [ok |-> FALSE, app |-> "", name |-> ""]
       ELSE [ok |-> TRUE, app |-> Join(parts[1]), name |-> Join(parts[2])]

\* The FLV file header and the size of the tag before the first one, as
\* Subscriber.WriteHeader writes them.
FlvFileHeader == <<"FLV header", "PreviousTagSize0">>

\* ------------------------------------------------------------------ Stream
NewStreamKey(app, name) == [app |-> app, name |-> name]

\* A bus Subscriber: an id and its ring buffer.
NewSubscriber(id, capacity, strategy) ==
    [id |-> id, buffer |-> NewRingBuffer(capacity, strategy)]

\* A Stream. publisher is 0 (nil) or the attached Publisher's id; subscribers
\* is the key set of the subscriber map; subs holds every Subscriber object
\* the stream has created (the map's values, and the objects that handlers
\* and fanout snapshots still point to after a detach).
NewStream(key) ==
    [key         |-> key,
     publisher   |-> 0,
     subscribers |-> {},
     subs        |-> <<>>,
     nextSubID   |-> 1,
     initVideo   |-> NilMsg,
     initAudio   |-> NilMsg,
     initMeta    |-> NilMsg]

\* A broken AttachPublisher that takes the slot unconditionally.
AttachPublisherOverwrite(s, id) ==
    [stream |-> [s EXCEPT !.publisher = id], ok |-> TRUE]

AttachPublisher(s, id) ==
    IF s.publisher # 0
    THEN [stream |-> s, ok |-> FALSE]
    ELSE [stream |-> [s EXCEPT !.publisher = id], ok |-> TRUE]

DetachPublisher(s) ==
    [s EXCEPT !.publisher = 0,
              !.initVideo = NilMsg,
              !.initAudio = NilMsg,
              !.initMeta  = NilMsg]

HasPublisher(s) == s.publisher # 0

\* A broken replay that writes the video header before the metadata.
ReplayInitVideoFirst(s, ring) ==
    LET r1 == IF s.initVideo # NilMsg THEN Write(ring, s.initVideo).rb ELSE ring
        r2 == IF s.initMeta  # NilMsg THEN Write(r1, s.initMeta).rb ELSE r1
        r3 == IF s.initAudio # NilMsg THEN Write(r2, s.initAudio).rb ELSE r2
    IN r3

\* The replay of AttachSubscriber: metadata, then video, then audio, each
\* only if cached, written into the new subscriber's ring.
ReplayInit(s, ring) ==
    LET r1 == IF s.initMeta  # NilMsg THEN Write(ring, s.initMeta).rb ELSE ring
        r2 == IF s.initVideo # NilMsg THEN Write(r1, s.initVideo).rb ELSE r1
        r3 == IF s.initAudio # NilMsg THEN Write(r2, s.initAudio).rb ELSE r2
    IN r3

AttachSubscriber(s, capacity, strategy) ==
    LET id  == s.nextSubID
        sub == NewSubscriber(id, capacity, strategy)
    IN [stream |-> [s EXCEPT !.nextSubID = id + 1,
                             !.subs = Append(s.subs,
                                 [sub EXCEPT !.buffer = ReplayInit(s, sub.buffer)]),
                             !.subscribers = s.subscribers \cup {id}],
        id |-> id]

DetachSubscriber(s, id) == [s EXCEPT !.subscribers = s.subscribers \ {id}]

\* A broken cacheInitMessage that keeps the first message cached of a kind.
cacheInitMessageKeepFirst(s, msg) ==
    CASE msg.Type = MessageTypeVideo /\ s.initVideo = NilMsg ->
            [s EXCEPT !.initVideo = Clone(msg)]
      [] msg.Type = MessageTypeAudio /\ s.initAudio = NilMsg ->
            [s EXCEPT !.initAudio = Clone(msg)]
      [] msg.Type = MessageTypeMetadata /\ s.initMeta = NilMsg ->
            [s EXCEPT !.initMeta = Clone(msg)]
      [] OTHER -> s

cacheInitMessage(s, msg) ==
    CASE msg.Type = MessageTypeVideo    -> [s EXCEPT !.initVideo = Clone(msg)]
      [] msg.Type = MessageTypeAudio    -> [s EXCEPT !.initAudio = Clone(msg)]
      [] msg.Type = MessageTypeMetadata -> [s EXCEPT !.initMeta  = Clone(msg)]
      [] OTHER -> s

SubscriberCount(s) == Cardinality(s.subscribers)

\* An emptiness test that forgets the subscribers.
IsEmptyOfPublisher(s) == s.publisher = 0

IsEmpty(s) == s.publisher = 0 /\ s.subscribers = {}

\* The ring of subscriber id of stream s.
Buffer(s, id) == s.subs[id].buffer

\* A fanout loop that gives up on the remaining subscribers when a ring
\* rejected the message.
FanoutRestStop(snapshot, written) == IF written THEN Tail(snapshot) ELSE <<>>

\* A fanout loop that offers a message again to a subscriber whose ring
\* rejected it.
FanoutRestRetry(snapshot, written) == IF written THEN Tail(snapshot) ELSE snapshot

\* What is left of the snapshot after the fanout loop's Write to its first
\* subscriber: the loop moves on whatever Write returned.
FanoutRest(snapshot, written) == Tail(snapshot)

\* ---------------------------------------------------------------- Registry
\* A broken GetOrCreate that allocates a stream for the key on every call.
GetOrCreateAnew(reg, heap, key) ==
    [reg |-> [reg EXCEPT ![key] = Len(heap) + 1],
     heap |-> Append(heap, NewStream(key)),
     stream |-> Len(heap) + 1,
     created |-> TRUE]

\* The registry maps a key to a stream object (0 = no entry); heap is the
\* sequence of Stream objects allocated so far, a stream object's identity
\* being its index.
GetOrCreate(reg, heap, key) ==
    IF reg[key] # 0
    THEN [reg |-> reg, heap |-> heap, stream |-> reg[key], created |-> FALSE]
    ELSE [reg |-> [reg EXCEPT ![key] = Len(heap) + 1],
          heap |-> Append(heap, NewStream(key)),
          stream |-> Len(heap) + 1,
          created |-> TRUE]

\* A key the map does not hold reads as nil.
Get(reg, key) == IF key \in DOMAIN reg THEN reg[key] ELSE 0

Remove(reg, heap, key) ==
    IF reg[key] = 0 THEN [reg |-> reg, ok |-> FALSE]
    ELSE IF ~IsEmpty(heap[reg[key]]) THEN [reg |-> reg, ok |-> FALSE]
    ELSE [reg |-> [reg EXCEPT ![key] = 0], ok |-> TRUE]

RemoveIfEmpty(reg, heap, key) == Remove(reg, heap, key)

Count(reg) == Cardinality({k \in DOMAIN reg : reg[k] # 0})

List(reg) == {k \in DOMAIN reg : reg[k] # 0}

\* ------------------------------------------------------- RTMP chunk stream
DefaultChunkSize == 128
MaxChunkSize == <<255, 65535>>
MessageTypeSetChunkSize == 1
MessageTypeAck == 3
MessageTypeUserCtrl == 4
MessageTypeWinAckSize == 5
MessageTypeSetPeerBandwidth == 6
MessageTypeCommandAMF0 == 20
ChunkFmt0 == 0
ChunkFmt1 == 1
ChunkFmt2 == 2
ChunkFmt3 == 3

\* Big-endian and little-endian byte fields as uint32 values, and back.
U24BE(b) == <<b[1], b[2] * 256 + b[3]>>
U32BE(b) == <<b[1] * 256 + b[2], b[3] * 256 + b[4]>>
U32LE(b) == <<b[4] * 256 + b[3], b[2] * 256 + b[1]>>
PutU24BE(v) == <<v[1] % 256, v[2] \div 256, v[2] % 256>>
PutU32BE(v) == <<v[1] \div 256, v[1] % 256, v[2] \div 256, v[2] % 256>>
PutU32LE(v) == <<v[2] % 256, v[2] \div 256, v[1] % 256, v[1] \div 256>>
ExtendedMarker == <<255, 65535>>

\* A read of n bytes from the connection's pending bytes r: the bytes and what
\* is left, or a failure when fewer than n are there.
ReadFull(r, n) ==
    IF Len(r) < n THEN [ok |-> FALSE, b |-> <<>>, rest |-> r]
    ELSE [ok |-> TRUE, b |-> SubSeq(r, 1, n), rest |-> SubSeq(r, n + 1, Len(r))]

\* &ChunkStream{chunkStreamID: csID}
NewChunkStream(csID) ==
    [chunkStreamID |-> csID, messageType |-> 0, messageLength |-> U32(0),
     timestamp |-> U32(0), timestampDelta |-> U32(0), hasExtendedTS |-> FALSE,
     streamID |-> U32(0), buffer |-> <<>>, bytesRead |-> U32(0)]

\* NewChunkParser: no chunk stream yet, incoming chunk size 128.
NewChunkParser == [chunkStreams |-> <<>>, chunkSize |-> U32(DefaultChunkSize)]

\* ChunkParser.SetChunkSize
ParserSetChunkSize(p, size) == [p EXCEPT !.chunkSize = size]

\* The result of a header read: the chunk stream after it, the bytes left, and
\* whether a read failed.
HeaderRead(cs, rest, ok) == [cs |-> cs, rest |-> rest, ok |-> ok]

readFmt0(r, cs) ==
    Bind(ReadFull(r, 3), LAMBDA t :
    Bind(ReadFull(t.rest, 8), LAMBDA h :
    Bind(ReadFull(h.rest, 4), LAMBDA e :
       IF ~t.ok THEN HeaderRead(cs, t.rest, FALSE)
       ELSE IF ~h.ok THEN HeaderRead(cs, h.rest, FALSE)
       ELSE LET timestamp == U24BE(t.b)
                ext == timestamp = ExtendedMarker
                c1  == [cs EXCEPT !.hasExtendedTS = ext]
            IN IF ext /\ ~e.ok THEN HeaderRead(c1, e.rest, FALSE)
               ELSE HeaderRead(
                      [c1 EXCEPT !.timestamp = IF ext THEN U32BE(e.b) ELSE timestamp,
                                 !.messageLength = U24BE(SubSeq(h.b, 1, 3)),
                                 !.messageType = h.b[4],
                                 !.streamID = U32LE(SubSeq(h.b, 5, 8)),
                                 !.bytesRead = U32(0),
                                 !.buffer = <<>>],
                      IF ext THEN e.rest ELSE h.rest, TRUE))))

readFmt1(r, cs) ==
    Bind(ReadFull(r, 3), LAMBDA d :
    Bind(ReadFull(d.rest, 4), LAMBDA h :
    Bind(ReadFull(h.rest, 4), LAMBDA e :
       IF ~d.ok THEN HeaderRead(cs, d.rest, FALSE)
       ELSE IF ~h.ok THEN HeaderRead(cs, h.rest, FALSE)
       ELSE LET delta == U24BE(d.b)
                ext == delta = ExtendedMarker
                c1  == [cs EXCEPT !.hasExtendedTS = ext]
                c2  == [c1 EXCEPT !.timestampDelta = IF ext THEN U32BE(e.b) ELSE delta]
            IN IF ext /\ ~e.ok THEN HeaderRead(c1, e.rest, FALSE)
               ELSE HeaderRead(
                      [c2 EXCEPT !.timestamp = Add32(cs.timestamp, c2.timestampDelta),
                                 !.messageLength = U24BE(SubSeq(h.b, 1, 3)),
                                 !.messageType = h.b[4],
                                 !.bytesRead = U32(0),
                                 !.buffer = <<>>],
                      IF ext THEN e.rest ELSE h.rest, TRUE))))

readFmt2(r, cs) ==
    Bind(ReadFull(r, 3), LAMBDA d :
    Bind(ReadFull(d.rest, 4), LAMBDA e :
       IF ~d.ok THEN HeaderRead(cs, d.rest, FALSE)
       ELSE LET delta == U24BE(d.b)
                ext == delta = ExtendedMarker
                c1  == [cs EXCEPT !.hasExtendedTS = ext]
                c2  == [c1 EXCEPT !.timestampDelta = IF ext THEN U32BE(e.b) ELSE delta]
            IN IF ext /\ ~e.ok THEN HeaderRead(c1, e.rest, FALSE)
               ELSE HeaderRead(
                      [c2 EXCEPT !.timestamp = Add32(cs.timestamp, c2.timestampDelta)],
                      IF ext THEN e.rest ELSE d.rest, TRUE)))

readFmt3(r, cs) ==
    Bind(ReadFull(r, 4), LAMBDA e :
       IF cs.hasExtendedTS
       THEN IF ~e.ok THEN HeaderRead(cs, e.rest, FALSE)
            ELSE HeaderRead(IF cs.bytesRead = U32(0)
                            THEN [cs EXCEPT !.timestamp = U32BE(e.b)] ELSE cs,
                            e.rest, TRUE)
       ELSE HeaderRead(IF cs.bytesRead = U32(0)
                       THEN [cs EXCEPT !.timestamp = Add32(cs.timestamp, cs.timestampDelta)]
                       ELSE cs,
                       r, TRUE))

readMessageHeader(r, cs, fmt) ==
    CASE fmt = ChunkFmt0 -> readFmt0(r, cs)
      [] fmt = ChunkFmt1 -> readFmt1(r, cs)
      [] fmt = ChunkFmt2 -> readFmt2(r, cs)
      [] fmt = ChunkFmt3 -> readFmt3(r, cs)

\* The basic header: format, chunk stream id, and the bytes left.
BasicHeader(r) ==
    Bind(ReadFull(r, 1), LAMBDA b :
    Bind(ReadFull(b.rest, 1), LAMBDA e1 :
    Bind(ReadFull(b.rest, 2), LAMBDA e2 :
       LET fmt == (b.b[1] \div 64) % 4
           id  == b.b[1] % 64
       IN IF ~b.ok THEN [ok |-> FALSE, fmt |-> 0, csID |-> 0, rest |-> b.rest]
          ELSE IF id = 0
               THEN [ok |-> e1.ok, fmt |-> fmt,
                     csID |-> IF e1.ok THEN e1.b[1] + 64 ELSE 0, rest |-> e1.rest]
          ELSE IF id = 1
               THEN [ok |-> e2.ok, fmt |-> fmt,
                     csID |-> IF e2.ok THEN e2.b[1] * 256 + e2.b[2] + 64 ELSE 0,
                     rest |-> e2.rest]
          ELSE [ok |-> TRUE, fmt |-> fmt, csID |-> id, rest |-> b.rest])))

\* The chunk stream of csID in the parser's map, created when absent.
ChunkStreamOf(p, csID) ==
    IF csID \in DOMAIN p.chunkStreams THEN p.chunkStreams[csID]
    ELSE NewChunkStream(csID)

WithChunkStream(p, cs) ==
    [p EXCEPT !.chunkStreams =
        [id \in DOMAIN p.chunkStreams \cup {cs.chunkStreamID} |->
            IF id = cs.chunkStreamID THEN cs ELSE p.chunkStreams[id]]]

\* The payload size of the next chunk of cs: the parser's chunk size, or what
\* is left of the message when that is less.
PayloadSize(p, cs) ==
    IF Lt32(cs.messageLength, Add32(cs.bytesRead, p.chunkSize))
    THEN Sub32(cs.messageLength, cs.bytesRead)
    ELSE p.chunkSize

\* ChunkParser.ReadChunk on the pending bytes r: the parser after the call,
\* the bytes left, the chunk stream id returned, and whether it returned an
\* error (a read that found too few bytes).
ReadChunk(p, r) ==
    Bind(BasicHeader(r), LAMBDA bh :
       IF ~bh.ok THEN [parser |-> p, rest |-> bh.rest, csID |-> 0, err |-> TRUE]
       ELSE
    Bind(readMessageHeader(bh.rest, ChunkStreamOf(p, bh.csID), bh.fmt), LAMBDA h :
       IF ~h.ok
       THEN [parser |-> WithChunkStream(p, h.cs), rest |-> h.rest,
             csID |-> bh.csID, err |-> TRUE]
       ELSE
    Bind(ReadFull(h.rest, Index32(PayloadSize(p, h.cs))), LAMBDA pl :
       IF ~pl.ok
       THEN [parser |-> WithChunkStream(p, h.cs), rest |-> pl.rest,
             csID |-> bh.csID, err |-> TRUE]
       ELSE [parser |-> WithChunkStream(p,
                           [h.cs EXCEPT !.buffer = h.cs.buffer \o pl.b,
                                        !.bytesRead = Add32(h.cs.bytesRead,
                                                            PayloadSize(p, h.cs))]),
             rest |-> pl.rest, csID |-> bh.csID, err |-> FALSE])))

\* ChunkParser.GetBytesReadForChunk
GetBytesReadForChunk(p, csID) ==
    IF csID \in DOMAIN p.chunkStreams THEN p.chunkStreams[csID].bytesRead ELSE U32(0)

\* ChunkParser.GetCompleteMessage: the parser after the call and what it
\* returned.
GetCompleteMessage(p, csID) ==
    IF csID \notin DOMAIN p.chunkStreams
       \/ Lt32(p.chunkStreams[csID].bytesRead, p.chunkStreams[csID].messageLength)
    THEN [parser |-> p, body |-> <<>>, msgType |-> 0, timestamp |-> U32(0),
          streamID |-> U32(0), complete |-> FALSE]
    ELSE LET cs == p.chunkStreams[csID]
         IN [parser |-> WithChunkStream(p, [cs EXCEPT !.buffer = <<>>,
                                                      !.bytesRead = U32(0)]),
             body |-> cs.buffer, msgType |-> cs.messageType,
             timestamp |-> cs.timestamp, streamID |-> cs.streamID,
             complete |-> TRUE]

\* -------------------------------------------------------------------- AMF0
TypeNumber == 0
TypeBoolean == 1
TypeString == 2
TypeObject == 3
TypeNull == 5
TypeUndefined == 6
TypeECMAArray == 8
TypeObjectEnd == 9
TypeStrictArray == 10

\* AMF0 values. A Go string is the sequence of its bytes; a float64 is the
\* sequence of the 8 bytes of its IEEE 754 representation, big-endian; an
\* Object is the sequence of its <<key, value>> pairs (the order in which Go
\* ranges over the map is not specified; the model takes the order given);
\* nil is AmfNull.
AmfNumber(bits) == [t |-> "number", bits |-> bits]
AmfBoolean(b) == [t |-> "boolean", b |-> b]
AmfString(s) == [t |-> "string", s |-> s]
AmfNull == [t |-> "nil"]
AmfObject(fields) == [t |-> "object", fields |-> fields]
AmfArray(items) == [t |-> "array", items |-> items]

\* floor(log2 n) for n >= 1.
RECURSIVE Log2(_)
Log2(n) == IF n < 2 THEN 0 ELSE 1 + Log2(n \div 2)

\* float64(n) for an integer 0 <= n < 2^20: sign and exponent in the first 12
\* bits, then the 52 bits of the fraction, of which only the first 20 are set.
Float64(n) ==
    IF n = 0 THEN <<0, 0, 0, 0, 0, 0, 0, 0>>
    ELSE LET e == Log2(n)
             exp == 1023 + e
             frac == (n - 2^e) * 2^(20 - e)
         IN <<exp \div 16, (exp % 16) * 16 + frac \div 65536,
              (frac \div 256) % 256, frac % 256, 0, 0, 0, 0>>

PutU16BE(n) == <<(n \div 256) % 256, n % 256>>

\* "connect"
StrConnect == <<99, 111, 110, 110, 101, 99, 116>>
\* "releaseStream"
StrReleaseStream == <<114, 101, 108, 101, 97, 115, 101, 83, 116, 114, 101, 97, 109>>
\* "FCPublish"
StrFCPublish == <<70, 67, 80, 117, 98, 108, 105, 115, 104>>
\* "createStream"
StrCreateStream == <<99, 114, 101, 97, 116, 101, 83, 116, 114, 101, 97, 109>>
\* "publish"
StrPublish == <<112, 117, 98, 108, 105, 115, 104>>
\* "deleteStream"
StrDeleteStream == <<100, 101, 108, 101, 116, 101, 83, 116, 114, 101, 97, 109>>
\* "closeStream"
StrCloseStream == <<99, 108, 111, 115, 101, 83, 116, 114, 101, 97, 109>>
\* "FCUnpublish"
StrFCUnpublish == <<70, 67, 85, 110, 112, 117, 98, 108, 105, 115, 104>>
\* "_result"
StrResult == <<95, 114, 101, 115, 117, 108, 116>>
\* "onStatus"
StrOnStatus == <<111, 110, 83, 116, 97, 116, 117, 115>>
\* "live"
StrLive == <<108, 105, 118, 101>>
\* "app"
StrApp == <<97, 112, 112>>
\* "objectEncoding"
StrObjectEncoding == <<111, 98, 106, 101, 99, 116, 69, 110, 99, 111, 100, 105, 110, 103>>
\* "fmsVer"
StrFmsVer == <<102, 109, 115, 86, 101, 114>>
\* "FMS/3,0,1,123"
StrFmsVerValue == <<70, 77, 83, 47, 51, 44, 48, 44, 49, 44, 49, 50, 51>>
\* "capabilities"
StrCapabilities == <<99, 97, 112, 97, 98, 105, 108, 105, 116, 105, 101, 115>>
\* "level"
StrLevel == <<108, 101, 118, 101, 108>>
\* "status"
StrStatus == <<115, 116, 97, 116, 117, 115>>
\* "code"
StrCode == <<99, 111, 100, 101>>
\* "NetConnection.Connect.Success"
StrConnectSuccess ==
    <<78, 101, 116, 67, 111, 110, 110, 101, 99, 116, 105, 111, 110, 46, 67, 111, 110,
      110, 101, 99, 116, 46, 83, 117, 99, 99, 101, 115, 115>>
\* "description"
StrDescription == <<100, 101, 115, 99, 114, 105, 112, 116, 105, 111, 110>>
\* "Connection succeeded."
StrConnectionSucceeded ==
    <<67, 111, 110, 110, 101, 99, 116, 105, 111, 110, 32, 115, 117, 99, 99, 101, 101,
      100, 101, 100, 46>>
\* "NetStream.Publish.Start"
StrPublishStart ==
    <<78, 101, 116, 83, 116, 114, 101, 97, 109, 46, 80, 117, 98, 108, 105, 115, 104, 46,
      83, 116, 97, 114, 116>>
\* "Start publishing"
StrStartPublishing ==
    <<83, 116, 97, 114, 116, 32, 112, 117, 98, 108, 105, 115, 104, 105, 110, 103>>

\* The value of obj[key] in a Go map built from the fields in order (a later
\* field with the same key replaces an earlier one); AmfNull when absent.
RECURSIVE FieldOf(_, _)
FieldOf(fields, key) ==
    IF fields = <<>> THEN AmfNull
    ELSE IF fields[Len(fields)][1] = key THEN fields[Len(fields)][2]
    ELSE FieldOf(SubSeq(fields, 1, Len(fields) - 1), key)

\* obj[key] = value
WithField(fields, key, value) ==
    SelectSeq(fields, LAMBDA f : f[1] # key) \o <<<<key, value>>>>

\* Encode, encodeNumber, encodeBoolean, encodeString, encodeNull,
\* encodeObject and encodeArray: the bytes written for a value.
RECURSIVE Encode(_), EncodeEach(_), EncodeFields(_)
EncodeEach(items) ==
    IF items = <<>> THEN <<>> ELSE Encode(Head(items)) \o EncodeEach(Tail(items))

EncodeFields(fields) ==
    IF fields = <<>> THEN <<>>
    ELSE PutU16BE(Len(Head(fields)[1])) \o Head(fields)[1]
            \o Encode(Head(fields)[2]) \o EncodeFields(Tail(fields))

Encode(val) ==
    CASE val.t = "number"  -> <<TypeNumber>> \o val.bits
      [] val.t = "boolean" -> <<TypeBoolean, IF val.b THEN 1 ELSE 0>>
      [] val.t = "string"  -> <<TypeString>> \o PutU16BE(Len(val.s)) \o val.s
      [] val.t = "nil"     -> <<TypeNull>>
      [] val.t = "object"  ->
            <<TypeObject>> \o EncodeFields(val.fields) \o <<0, 0, TypeObjectEnd>>
      [] val.t = "array"   ->
            <<TypeStrictArray>> \o PutU32BE(U32(Len(val.items))) \o EncodeEach(val.items)

\* The values of a command written one after the other.
EncodeCommandPlain(arr) == EncodeEach(arr)

\* EncodeCommand: encodeArray on the whole command.
EncodeCommand(arr) == Encode(AmfArray(arr))

\* Decode: one value read from the bytes r; ok is FALSE when it returned an
\* error.
AmfRead(ok, val, rest) == [ok |-> ok, val |-> val, rest |-> rest]

decodeString(r) ==
    Bind(ReadFull(r, 2), LAMBDA n :
       IF ~n.ok THEN AmfRead(FALSE, AmfNull, n.rest)
       ELSE IF n.b[1] * 256 + n.b[2] = 0 THEN AmfRead(TRUE, AmfString(<<>>), n.rest)
       ELSE
    Bind(ReadFull(n.rest, n.b[1] * 256 + n.b[2]), LAMBDA s :
       IF ~s.ok THEN AmfRead(FALSE, AmfNull, s.rest)
       ELSE AmfRead(TRUE, AmfString(s.b), s.rest)))

RECURSIVE Decode(_), decodeObject(_, _)
decodeObject(r, fields) ==
    Bind(ReadFull(r, 2), LAMBDA n :
       IF ~n.ok THEN AmfRead(FALSE, AmfNull, n.rest)
       ELSE IF n.b[1] * 256 + n.b[2] = 0
            THEN Bind(ReadFull(n.rest, 1), LAMBDA end :
                    IF ~end.ok THEN AmfRead(FALSE, AmfNull, end.rest)
                    ELSE IF end.b[1] # TypeObjectEnd
                         THEN AmfRead(FALSE, AmfNull, end.rest)
                    ELSE AmfRead(TRUE, AmfObject(fields), end.rest))
       ELSE
    Bind(ReadFull(n.rest, n.b[1] * 256 + n.b[2]), LAMBDA key :
       IF ~key.ok THEN AmfRead(FALSE, AmfNull, key.rest)
       ELSE
    Bind(Decode(key.rest), LAMBDA value :
       IF ~value.ok THEN AmfRead(FALSE, AmfNull, value.rest)
       ELSE decodeObject(value.rest, WithField(fields, key.b, value.val)))))

Decode(r) ==
    Bind(ReadFull(r, 1), LAMBDA m :
    Bind(ReadFull(m.rest, 8), LAMBDA num :
    Bind(ReadFull(m.rest, 1), LAMBDA bool :
    Bind(ReadFull(m.rest, 4), LAMBDA count :
       IF ~m.ok THEN AmfRead(FALSE, AmfNull, m.rest)
       ELSE CASE m.b[1] = TypeNumber ->
                    IF num.ok THEN AmfRead(TRUE, AmfNumber(num.b), num.rest)
                    ELSE AmfRead(FALSE, AmfNull, num.rest)
              [] m.b[1] = TypeBoolean ->
                    IF bool.ok THEN AmfRead(TRUE, AmfBoolean(bool.b[1] # 0), bool.rest)
                    ELSE AmfRead(FALSE, AmfNull, bool.rest)
              [] m.b[1] = TypeString -> decodeString(m.rest)
              [] m.b[1] \in {TypeNull, TypeUndefined} -> AmfRead(TRUE, AmfNull, m.rest)
              [] m.b[1] = TypeObject -> decodeObject(m.rest, <<>>)
              [] m.b[1] = TypeECMAArray ->
                    IF count.ok THEN decodeObject(count.rest, <<>>)
                    ELSE AmfRead(FALSE, AmfNull, count.rest)
              [] OTHER -> AmfRead(FALSE, AmfNull, m.rest)))))

\* DecodeCommand: the command name and the transaction id are decoded; the
\* values after them are skipped (SkipAny until it returns an error) and do
\* not appear in the array returned.
DecodeCommand(r) ==
    Bind(Decode(r), LAMBDA cmdName :
       IF ~cmdName.ok THEN [arr |-> <<>>, err |-> TRUE]
       ELSE
    Bind(Decode(cmdName.rest), LAMBDA transID :
       IF ~transID.ok THEN [arr |-> <<cmdName.val>>, err |-> FALSE]
       ELSE [arr |-> <<cmdName.val, transID.val>>, err |-> FALSE]))

\* ------------------------------------------------------------ RTMP session
StateHandshaking == 0
StateConnected == 1
StatePublishing == 2
StateClosed == 3

\* The basic header WriteChunk writes for a chunk of format fmt.
WriteBasicHeader(fmt, csID) ==
    IF csID < 64 THEN <<fmt * 64 + csID>>
    ELSE IF csID < 320 THEN <<fmt * 64, csID - 64>>
    ELSE <<fmt * 64 + 1>> \o PutU16BE(csID - 64)

\* WriteChunk from offset on: a format-0 header on the first chunk, format 3
\* on the others, and at most chunkSize bytes of the body in each.
RECURSIVE WriteChunkFrom(_, _, _, _, _, _, _)
WriteChunkFrom(offset, csID, msgType, timestamp, streamID, body, chunkSize) ==
    IF offset >= Len(body) THEN <<>>
    ELSE LET fmt == IF offset = 0 THEN ChunkFmt0 ELSE ChunkFmt3
             extended == Geq32(timestamp, ExtendedMarker)
             header ==
                IF fmt = ChunkFmt0
                THEN PutU24BE(IF extended THEN ExtendedMarker ELSE timestamp)
                        \o PutU24BE(U32(Len(body))) \o <<msgType>>
                        \o PutU32LE(streamID)
                        \o (IF extended THEN PutU32BE(timestamp) ELSE <<>>)
                ELSE <<>>
             chunkLen == IF offset + Index32(chunkSize) > Len(body)
                         THEN Len(body) - offset ELSE Index32(chunkSize)
         IN WriteBasicHeader(fmt, csID) \o header
               \o SubSeq(body, offset + 1, offset + chunkLen)
               \o WriteChunkFrom(offset + chunkLen, csID, msgType, timestamp,
                                 streamID, body, chunkSize)

WriteChunk(csID, msgType, timestamp, streamID, body, chunkSize) ==
    WriteChunkFrom(0, csID, msgType, timestamp, streamID, body, chunkSize)

\* ParseSetChunkSize: the size, or an error for a short body or a size above
\* MaxChunkSize.
ParseSetChunkSize(body) ==
    IF Len(body) < 4 THEN [size |-> U32(0), err |-> TRUE]
    ELSE IF Lt32(MaxChunkSize, U32BE(SubSeq(body, 1, 4)))
         THEN [size |-> U32(0), err |-> TRUE]
    ELSE [size |-> U32BE(SubSeq(body, 1, 4)), err |-> FALSE]

CreateSetChunkSize(size) == PutU32BE(size)
CreateWindowAckSize(size) == PutU32BE(size)
CreateSetPeerBandwidth(size, limitType) == PutU32BE(size) \o <<limitType>>
ControlStreamBegin == 0
CreateStreamBegin(streamID) == <<ControlStreamBegin, 0>> \o PutU32BE(streamID)

\* 5000000 and 4096 as uint32 values.
AckWindowSize == <<76, 19264>>
ServerChunkSize == U32(4096)
\* 0xf0000000, where the received-byte counter is reset.
AckCounterLimit == <<61440, 0>>

\* NewServiceSession: the Session (state, outgoing chunk size, app, stream
\* name, ACK tracking, chunk parser) with the service's fields; publisher is
\* 0 (nil) or the stream object of the Publisher; registry and heap are the
\* registry the session was made with.
NewConnSession(reg) ==
    [state |-> StateHandshaking, chunkSize |-> U32(DefaultChunkSize),
     app |-> <<>>, streamName |-> <<>>,
     ackSize |-> U32(0), inAckSize |-> U32(0), inLastAck |-> U32(0),
     parser |-> NewChunkParser, connOpen |-> TRUE,
     publisher |-> 0, nextStreamID |-> U32(1),
     registry |-> reg, heap |-> <<>>]

\* What a call on the session gives: the session after it, the messages it
\* wrote, whether it returned an error, and whether a write on the connection
\* failed.
Reply(s) == [s |-> s, out |-> <<>>, err |-> FALSE, broken |-> FALSE]
Failed(r) == [r EXCEPT !.err = TRUE]
Broken(r) == [r EXCEPT !.err = TRUE, !.broken = TRUE]

\* Session.WriteMessage within a call that has written r.out so far: the
\* message is chunked with the session's outgoing chunk size. budget is the
\* number of writes the connection still takes before it breaks; once broken
\* it takes none.
WriteMessage(r, budget, csID, msgType, timestamp, streamID, body) ==
    IF r.broken \/ Len(r.out) >= budget THEN Broken(r)
    ELSE Bind(body, LAMBDA b :
            [r EXCEPT !.out = Append(@,
                [csID |-> csID, msgType |-> msgType, timestamp |-> timestamp,
                 streamID |-> streamID, body |-> b,
                 bytes |-> WriteChunk(csID, msgType, timestamp, streamID, b,
                                      r.s.chunkSize)])])

\* Session.SetChunkSize: the session's chunk size, used for writing, and the
\* parser's with it. HandleConnect and the loop of handleConnection do not
\* call it: they call the two setters below.
SetChunkSize(s, size) ==
    [s EXCEPT !.chunkSize = size, !.parser = ParserSetChunkSize(@, size)]

\* Session.SetWriteChunkSize and Session.SetReadChunkSize are called by
\* HandleConnect and by the loop, and their bodies are not among the
\* sources. They are taken from the chunk-size policy (per direction: the
\* outgoing size is set locally, the incoming one on receipt of
\* Set-Chunk-Size), from the comment at the loop's call ("Update READ chunk
\* size only") and from ChunkParser.SetChunkSize's ("call this ONLY when a
\* SetChunkSize message is received from the remote peer"): the first sets
\* the size WriteMessage chunks with, the second the parser's.
SetWriteChunkSize(s, size) == [s EXCEPT !.chunkSize = size]
SetReadChunkSize(s, size) == [s EXCEPT !.parser = ParserSetChunkSize(@, size)]

\* Session.RecordBytesReceived, SendACK included.
RecordBytesReceived(s, bytesRead, budget) ==
    Bind(IF Geq32(Add32(s.inAckSize, bytesRead), AckCounterLimit)
         THEN [s EXCEPT !.inAckSize = U32(0), !.inLastAck = U32(0)]
         ELSE [s EXCEPT !.inAckSize = Add32(s.inAckSize, bytesRead)], LAMBDA s1 :
       IF ~(/\ s1.ackSize # U32(0)
            /\ Geq32(Sub32(s1.inAckSize, s1.inLastAck), s1.ackSize))
       THEN Reply(s1)
       ELSE
    Bind(WriteMessage(Reply(s1), budget, 2, MessageTypeAck, U32(0), U32(0),
                      PutU32BE(s1.inAckSize)), LAMBDA w :
       IF w.err THEN w
       ELSE [w EXCEPT !.s.inLastAck = s1.inAckSize]))

\* toFloat64: a number as it is, 1.0 for anything else.
toFloat64(v) == IF v.t = "number" THEN v.bits ELSE Float64(1)

\* toObject: the fields of an Object, AmfNull (nil) for anything else.
toObject(v) == IF v.t = "object" THEN v ELSE AmfNull

\* The orders in which a range over a Go map of n keys can yield them: the
\* permutations of 1..n.
RangeOrders(n) ==
    {p \in [1..n -> 1..n] : \A i, j \in 1..n : p[i] = p[j] => i = j}

\* The entries of a map as a range over it yields them under order (a
\* permutation of at least Len(entries) indices, of which those of the
\* entries count).
Ranged(entries, order) ==
    LET kept == SelectSeq(order, LAMBDA i : i <= Len(entries))
    IN [i \in 1..Len(entries) |-> entries[kept[i]]]

\* sendConnectResult: the two objects are Go maps, written in the order
\* the range over each yields its keys (iter[1] and iter[2]).
sendConnectResult(r, budget, iter, transID, objectEncoding) ==
    WriteMessage(r, budget, 3, MessageTypeCommandAMF0, U32(0), U32(0),
        EncodeCommand(<<
            AmfString(StrResult),
            AmfNumber(toFloat64(transID)),
            AmfObject(Ranged(<< <<StrFmsVer, AmfString(StrFmsVerValue)>>,
                                <<StrCapabilities, AmfNumber(Float64(31))>> >>,
                             iter[1])),
            AmfObject(Ranged(<< <<StrLevel, AmfString(StrStatus)>>,
                                <<StrCode, AmfString(StrConnectSuccess)>>,
                                <<StrDescription, AmfString(StrConnectionSucceeded)>>,
                                <<StrObjectEncoding, AmfNumber(objectEncoding)>> >>,
                             iter[2])) >>))

\* The announcements with the chunk size ahead of the window.
ConnectAnnounceChunkSizeFirst(r, budget) ==
    Bind(WriteMessage(r, budget, 2, MessageTypeSetChunkSize, U32(0), U32(0),
                      CreateSetChunkSize(ServerChunkSize)), LAMBDA r1 :
       IF r1.err THEN r1
       ELSE
    Bind(WriteMessage([r1 EXCEPT !.s = SetWriteChunkSize(@, ServerChunkSize)],
                      budget, 2, MessageTypeWinAckSize, U32(0), U32(0),
                      CreateWindowAckSize(AckWindowSize)), LAMBDA r2 :
       IF r2.err THEN r2
       ELSE WriteMessage([r2 EXCEPT !.s.ackSize = AckWindowSize], budget, 2,
                         MessageTypeSetPeerBandwidth, U32(0), U32(0),
                         CreateSetPeerBandwidth(AckWindowSize, 2))))

\* The announcements with 4096 adopted through Session.SetChunkSize, which
\* sets the parser's size as well.
ConnectAnnounceSetChunkSize(r, budget) ==
    Bind(WriteMessage(r, budget, 2, MessageTypeWinAckSize, U32(0), U32(0),
                      CreateWindowAckSize(AckWindowSize)), LAMBDA r1 :
       IF r1.err THEN r1
       ELSE
    Bind(WriteMessage([r1 EXCEPT !.s.ackSize = AckWindowSize], budget, 2,
                      MessageTypeSetPeerBandwidth, U32(0), U32(0),
                      CreateSetPeerBandwidth(AckWindowSize, 2)), LAMBDA r2 :
       IF r2.err THEN r2
       ELSE
    Bind(WriteMessage(r2, budget, 2, MessageTypeSetChunkSize, U32(0), U32(0),
                      CreateSetChunkSize(ServerChunkSize)), LAMBDA r3 :
       IF r3.err THEN r3
       ELSE [r3 EXCEPT !.s = SetChunkSize(@, ServerChunkSize)])))

\* What HandleConnect announces before its result: the acknowledgement
\* window, recorded as the session's, the peer bandwidth, and the outgoing
\* chunk size, adopted once announced. A failed write ends it.
ConnectAnnounce(r, budget) ==
    Bind(WriteMessage(r, budget, 2, MessageTypeWinAckSize, U32(0), U32(0),
                      CreateWindowAckSize(AckWindowSize)), LAMBDA r1 :
       IF r1.err THEN r1
       ELSE
    Bind(WriteMessage([r1 EXCEPT !.s.ackSize = AckWindowSize], budget, 2,
                      MessageTypeSetPeerBandwidth, U32(0), U32(0),
                      CreateSetPeerBandwidth(AckWindowSize, 2)), LAMBDA r2 :
       IF r2.err THEN r2
       ELSE
    Bind(WriteMessage(r2, budget, 2, MessageTypeSetChunkSize, U32(0), U32(0),
                      CreateSetChunkSize(ServerChunkSize)), LAMBDA r3 :
       IF r3.err THEN r3
       ELSE [r3 EXCEPT !.s = SetWriteChunkSize(@, ServerChunkSize)])))

\* ServiceSession.HandleConnect
SessionConnect(s, command, budget, iter) ==
    IF Len(command) < 2 THEN Failed(Reply(s))
    ELSE LET cmdObj == IF Len(command) >= 3 /\ command[3] # AmfNull
                       THEN toObject(command[3]) ELSE AmfNull
             appVal == IF cmdObj # AmfNull THEN FieldOf(cmdObj.fields, StrApp)
                       ELSE AmfNull
             encVal == IF cmdObj # AmfNull
                       THEN FieldOf(cmdObj.fields, StrObjectEncoding) ELSE AmfNull
             app == IF appVal.t = "string" THEN appVal.s ELSE StrLive
             objectEncoding == IF encVal.t = "number" THEN encVal.bits ELSE Float64(0)
         IN Bind(ConnectAnnounce(Reply([s EXCEPT !.app = app]), budget), LAMBDA a :
               IF a.err THEN a
               ELSE sendConnectResult(a, budget, iter, command[2], objectEncoding))

\* HandleReleaseStream and HandleFCPublish: _result with the transaction id
\* and null; a command without a transaction id is ignored.
SessionReleaseStream(s, command, budget) ==
    IF Len(command) < 2 THEN Reply(s)
    ELSE WriteMessage(Reply(s), budget, 3, MessageTypeCommandAMF0, U32(0), U32(0),
            EncodeCommand(<<AmfString(StrResult), AmfNumber(toFloat64(command[2])),
                            AmfNull>>))

\* float64 of a stream id (below 2^16 here).
Float64OfU32(v) == Float64(Index32(v))

\* ServiceSession.HandleCreateStream
SessionCreateStream(s, command, budget) ==
    IF Len(command) < 2 THEN Failed(Reply(s))
    ELSE WriteMessage(Reply([s EXCEPT !.nextStreamID = Add32(@, U32(1))]), budget,
            3, MessageTypeCommandAMF0, U32(0), U32(0),
            EncodeCommand(<<AmfString(StrResult), AmfNumber(toFloat64(command[2])),
                            AmfNull, AmfNumber(Float64OfU32(s.nextStreamID))>>))

\* extractStreamName: the string at index 3, else the string at index 2, else
\* the empty string (Go indexes from 0, the model's sequences from 1).
extractStreamName(command) ==
    IF Len(command) >= 4 /\ command[4].t = "string" THEN command[4].s
    ELSE IF Len(command) >= 3 /\ command[3].t = "string" THEN command[3].s
    ELSE <<>>

\* sendOnStatus: the status object is a Go map, written in the order the
\* range over it yields its keys (iter[1]).
sendOnStatus(r, budget, iter, streamID, level, code, description) ==
    WriteMessage(r, budget, 5, MessageTypeCommandAMF0, U32(0), streamID,
        EncodeCommand(<<AmfString(StrOnStatus), AmfNumber(Float64(0)), AmfNull,
            AmfObject(Ranged(<< <<StrLevel, AmfString(level)>>,
                                <<StrCode, AmfString(code)>>,
                                <<StrDescription, AmfString(description)>> >>,
                             iter[1]))>>))

\* ServiceSession.HandlePublish
SessionPublish(s, command, streamID, budget, iter) ==
    Bind(extractStreamName(command), LAMBDA streamName :
       IF streamName = <<>> THEN Failed(Reply(s))
       ELSE IF s.app = <<>> THEN Failed(Reply(s))
       ELSE
    Bind(GetOrCreate(s.registry, s.heap, NewStreamKey(s.app, streamName)), LAMBDA g :
    Bind(AttachPublisher(g.heap[g.stream], 1), LAMBDA a :
       IF ~a.ok THEN Failed(Reply([s EXCEPT !.registry = g.reg, !.heap = g.heap]))
       ELSE
    Bind(WriteMessage(Reply([s EXCEPT !.registry = g.reg,
                                      !.heap = [g.heap EXCEPT ![g.stream] = a.stream],
                                      !.publisher = g.stream,
                                      !.streamName = streamName,
                                      !.state = StatePublishing]),
                      budget, 2, MessageTypeUserCtrl, U32(0), U32(0),
                      CreateStreamBegin(streamID)), LAMBDA b :
       sendOnStatus([b EXCEPT !.err = FALSE], budget, iter, streamID,
                    StrStatus, StrPublishStart, StrStartPublishing)))))

\* ServiceSession.Close: the publisher is detached and its stream removed if
\* it is empty, then Session.Close closes the connection.
SessionServiceClose(s) ==
    LET st == s.publisher
        h1 == [s.heap EXCEPT ![st] = DetachPublisher(@)]
        s1 == IF st # 0
              THEN [s EXCEPT !.heap = h1,
                             !.registry = RemoveIfEmpty(s.registry, h1, h1[st].key).reg]
              ELSE s
    IN [s1 EXCEPT !.state = StateClosed, !.connOpen = FALSE]

\* ServiceSession.HandleMediaMessage: without a publisher the message is
\* dropped; with one it is published on the stream, which has no subscriber
\* on this connection's registry.
SessionMediaMessage(s, msgType, timestamp, body) ==
    IF s.publisher = 0 THEN s
    ELSE LET msg == MediaMessageFor(1, msgType, Index32(timestamp), body)
         IN IF msg # NilMsg /\ msg.IsInit
            THEN [s EXCEPT !.heap[s.publisher] = cacheInitMessage(@, msg)]
            ELSE s

\* Server.handleCommand: the command is decoded and handled by name.
handleCommand(s, body, streamID, budget, iter) ==
    Bind(DecodeCommand(body), LAMBDA d :
       IF d.err THEN Failed(Reply(s))
       ELSE IF Len(d.arr) = 0 THEN Reply(s)
       ELSE IF d.arr[1].t # "string" THEN Reply(s)
       ELSE LET command == d.arr
                cmdName == command[1].s
            IN CASE cmdName = StrConnect -> SessionConnect(s, command, budget, iter)
                 [] cmdName = StrReleaseStream -> SessionReleaseStream(s, command, budget)
                 [] cmdName = StrFCPublish -> SessionReleaseStream(s, command, budget)
                 [] cmdName = StrCreateStream -> SessionCreateStream(s, command, budget)
                 [] cmdName = StrPublish -> SessionPublish(s, command, streamID, budget, iter)
                 [] cmdName \in {StrDeleteStream, StrCloseStream} ->
                       Reply(SessionServiceClose(s))
                 [] OTHER -> Reply(s))

\* What a complete message does in handleConnection's loop, by its type.
HandleMessage(s, m, budget, iter) ==
    CASE m.msgType = MessageTypeSetChunkSize ->
            Bind(ParseSetChunkSize(m.body), LAMBDA size :
               Reply(IF size.err THEN s ELSE SetReadChunkSize(s, size.size)))
      [] m.msgType = MessageTypeCommandAMF0 ->
            handleCommand(s, m.body, m.streamID, budget, iter)
      [] m.msgType \in {RtmpMessageTypeAudio, RtmpMessageTypeVideo,
                        RtmpMessageTypeDataAMF0} ->
            Reply(SessionMediaMessage(s, m.msgType, m.timestamp, m.body))
      [] OTHER -> Reply(s)

\* One turn of handleConnection's loop on the pending bytes r, ReadChunk
\* having succeeded: ACK tracking, GetCompleteMessage, and the handling of a
\* complete message by type. msg is the message GetCompleteMessage returned;
\* err tells whether the loop ends (a command error).
LoopTurn(s, r, budget, iter) ==
    Bind(ReadChunk(s.parser, r), LAMBDA c :
    Bind(GetBytesReadForChunk(c.parser, c.csID), LAMBDA bytesRead :
    Bind(IF bytesRead # U32(0)
         THEN RecordBytesReceived([s EXCEPT !.parser = c.parser], bytesRead, budget)
         ELSE Reply([s EXCEPT !.parser = c.parser]), LAMBDA ack :
    Bind(GetCompleteMessage(ack.s.parser, c.csID), LAMBDA m :
    Bind(IF m.complete
         THEN HandleMessage([ack.s EXCEPT !.parser = m.parser], m,
                            IF ack.broken THEN 0 ELSE budget - Len(ack.out), iter)
         ELSE Reply([ack.s EXCEPT !.parser = m.parser]), LAMBDA h :
       [s |-> h.s, out |-> ack.out \o h.out, err |-> h.err,
        broken |-> ack.broken \/ h.broken, rest |-> c.rest,
        csID |-> c.csID, msg |-> m])))))

\* --------------------------------------------------------------- variables
VARIABLES
    rb,        \* the RingBuffer under test
    wr,        \* the writer goroutine's Write call
    rd,        \* the reader goroutine's Read call
    nWritten,  \* number of Write calls made with a non-nil message
    readLog,   \* messages returned by successful Read calls, in order
    writeRets, \* what each completed Write call returned, in order
    readAt,    \* for each successful Read call: the number of Write calls made before it returned
    registry,  \* Registry.streams: key -> stream object (0 = no entry)
    heap,      \* the Stream objects allocated so far
    owner,     \* per stream object: the session whose AttachPublisher holds the slot (0 = none)
    sess,      \* the RTMP connection handlers and their ServiceSessions
    http,      \* the HTTP-FLV request handlers
    nextMsg,   \* identity of the next message acquired by a publisher
    pool,      \* messagePool and payloadPool: how many Get and Put calls were made on each
    goroutines, \* callers of the registry and its streams: position and mutexes held
    failedOn,  \* per session: the stream another session held when its publish was rejected (0 = none)
    env,       \* the clients of a run: how many connect, what they send
    bus,       \* a Stream used directly through the bus API
    calls,     \* the AttachPublisher / DetachPublisher calls made on bus, with their results
    pubCall,   \* the publishing goroutine's Publish call on bus
    readers,   \* per subscriber of bus: its FLV runtime and what it read
    published, \* the messages handed to Publish on bus, in order
    cachedAt,  \* per subscriber of bus: the init messages AttachSubscriber found cached, in replay order
    latest,    \* per kind: the init message most recently published on bus, and what happened since
    latestAt,  \* per subscriber of bus: latest as it was at AttachSubscriber
    snapAt,    \* per subscriber of bus: how many Publish calls had taken their snapshot at AttachSubscriber
    busEnv,    \* the clients of bus in a run: the publisher's script, the consumers' rings
    conn,      \* one RTMP connection, server side: chunk parser, session, handler position
    peer,      \* the client of conn: the chunks it has still to send, those it sent
    inbuf,     \* the bytes the client sent that the server has not read yet
    wire,      \* the messages the server wrote to conn, in order
    inbox      \* the messages GetCompleteMessage returned on conn, in order

ringVars == <<rb, wr, rd, nWritten, readLog, writeRets, readAt>>
svcVars == <<registry, heap, owner, sess, http, nextMsg, pool, goroutines, failedOn, env>>
busVars == <<bus, calls, pubCall, readers, published, cachedAt, latest, latestAt, snapAt, busEnv>>
connVars == <<conn, peer, inbuf, wire, inbox>>
vars == <<ringVars, svcVars, busVars, connVars>>

\* --------------------------------------------------- the service's universe
NumSessions == 3
NumHttp == 1
MaxStreamObjects == 2
MaxMedia == 1

\* The capacity the HTTP-FLV subscriber asks for. The handler asks for 1000
\* slots; the rings of the model are scaled down to this many, still more than
\* the messages a run of at most MaxMedia publications queues.
HttpSubscriberCapacity == 4

Sessions == 1..NumSessions
HttpHandlers == 1..NumHttp
Apps == {"live"}
Names == {"a", "b"}
Keys == {NewStreamKey(a, n) : a \in Apps, n \in Names}

\* The RTMP media messages a client sends: an AVC sequence header, an AVC
\* keyframe, an AAC sequence header.
MediaInputs ==
    {[msgType |-> RtmpMessageTypeVideo, body |-> <<23, 0>>],
     [msgType |-> RtmpMessageTypeVideo, body |-> <<23, 1>>],
     [msgType |-> RtmpMessageTypeAudio, body |-> <<175, 0>>]}

\* The clients of a run: sessions RTMP connections are made, handlers HTTP
\* requests, media messages are sent in all, and the stream names are drawn
\* from names.
Universe(sessions, handlers, media, names) ==
    [sessions |-> sessions, handlers |-> handlers, media |-> media, names |-> names]

Universes ==
    {Universe(NumSessions, 0, 0, {"a"}),
     Universe(NumSessions - 1, NumHttp, MaxMedia, {"a"}),
     Universe(1, NumHttp, MaxMedia, Names)}

\* msg, snapshot and write are the locals of the session's Publish call: the
\* message, the subscribers still to be served, the Write in progress.
NewServiceSession ==
    [pc |-> "absent", state |-> StateHandshaking, app |-> "",
     publisher |-> 0, stream |-> 0, msg |-> NilMsg, snapshot |-> <<>>,
     write |-> WriteIdle, ret |-> "ended", connOpen |-> TRUE]

\* clientGone: the client has closed the connection, so that a write to the
\* response fails. read is the Read call of ProcessMessages in progress.
NoRequest == [method |-> "", path |-> <<>>]

NewHandler ==
    [pc |-> "idle", stream |-> 0, subscriberID |-> 0, flv |-> NewFlvSubscriber,
     clientGone |-> FALSE, req |-> NoRequest, w |-> NewResponse,
     read |-> ReadIdle]

\* The requests a client makes: a GET for a stream of each name, for a name
\* with a slash in it, for a path without extension, for a path without a
\* slash between app and name; and a POST.
FlvPath(app, name) == <<"/", app, "/", name, ".flv">>

Requests(names) ==
    {[method |-> "GET", path |-> FlvPath("live", n)] : n \in names}
    \cup {[method |-> "GET", path |-> <<"/", "live", "/", "a", "/", "b", ".flv">>],
          [method |-> "GET", path |-> <<"/", "live", "/", "a">>],
          [method |-> "GET", path |-> <<"/", "live", ".flv">>],
          [method |-> "POST", path |-> FlvPath("live", "a")]}

\* The service with no connection accepted yet.
SvcIdle ==
    /\ registry = [k \in Keys |-> 0]
    /\ heap = <<>>
    /\ owner = <<>>
    /\ sess = [i \in Sessions |-> NewServiceSession]
    /\ http = [h \in HttpHandlers |-> NewHandler]
    /\ nextMsg = 1
    /\ pool = NewPools
    /\ goroutines = <<>>
    /\ failedOn = [i \in Sessions |-> 0]
    /\ env = Universe(0, 0, 0, {})

MaxSubscribers == 2
MaxPublish == 4
MaxRead == 4
MaxCapacity == 4
SubscriberIds == 1..MaxSubscribers

\* The RTMP messages of a publisher: metadata, an AVC sequence header, an AAC
\* sequence header, an AVC keyframe.
MetaIn == [msgType |-> RtmpMessageTypeDataAMF0, body |-> <<2, 0, 0>>]
VideoHeaderIn == [msgType |-> RtmpMessageTypeVideo, body |-> <<23, 0>>]
AudioHeaderIn == [msgType |-> RtmpMessageTypeAudio, body |-> <<175, 0>>]
KeyframeIn == [msgType |-> RtmpMessageTypeVideo, body |-> <<23, 1>>]
\* Media that is neither header nor keyframe: an AVC inter frame, an AAC frame.
InterFrameIn == [msgType |-> RtmpMessageTypeVideo, body |-> <<39, 1>>]
AudioFrameIn == [msgType |-> RtmpMessageTypeAudio, body |-> <<175, 1>>]

\* What a publisher sends, in order: the headers then a frame; the same in
\* another order; a sequence header replaced by a newer one; frames in the
\* middle of a group of pictures, then a keyframe and a frame after it; a
\* new sequence header in the middle of the stream (a change of resolution).
Scripts ==
    {<<MetaIn, VideoHeaderIn, AudioHeaderIn, KeyframeIn>>,
     <<AudioHeaderIn, VideoHeaderIn, MetaIn, KeyframeIn>>,
     <<VideoHeaderIn, KeyframeIn, VideoHeaderIn, KeyframeIn>>,
     <<AudioFrameIn, InterFrameIn, KeyframeIn, AudioFrameIn>>,
     <<KeyframeIn, InterFrameIn, VideoHeaderIn, KeyframeIn>>}

\* The clients of the bus stream in a run: the publisher's script, how many
\* consumers attach, and the ring they ask for.
BusClients(script, subscribers, capacity, strategy) ==
    [script |-> script, subscribers |-> subscribers,
     capacity |-> capacity, strategy |-> strategy]

NoBusClients == BusClients(<<>>, 0, 1, BackpressureDropOldest)

\* Two messages, for the rings of one slot: two init messages that are
\* replayed together, and a sequence header followed by a keyframe.
ShortScripts ==
    {<<MetaIn, VideoHeaderIn>>, <<VideoHeaderIn, KeyframeIn>>}

\* Every script with one consumer on a ring that holds it; the short ones,
\* and one of three messages, with one consumer on a ring of one slot that
\* overflows; two frames with MaxSubscribers consumers on rings of one slot.
BusUniverses ==
    {BusClients(sc, 1, MaxCapacity, BackpressureDropOldest) : sc \in Scripts}
    \cup {BusClients(sc, 1, 1, st) :
            sc \in ShortScripts,
            st \in {BackpressureDropOldest, BackpressureDropNewest}}
    \cup {BusClients(<<MetaIn, VideoHeaderIn, KeyframeIn>>, 1, 1,
                      BackpressureDropOldest)}
    \cup {BusClients(<<KeyframeIn, InterFrameIn>>, MaxSubscribers, 1, st) :
            st \in {BackpressureDropOldest, BackpressureDropNewest}}

\* The Publish call of the publishing goroutine: idle, or between its steps.
\* write is the RingBuffer.Write call of the fanout loop.
PublishIdle == [pc |-> "idle", msg |-> NilMsg, snapshot |-> <<>>, write |-> WriteIdle]

\* A subscriber's consumer: the FLV runtime that processes what it reads, and
\* the record of each message read (the message, whether a tag was written
\* for it, and the tag's timestamp); read is its RingBuffer.Read call.
NewReader == [flv |-> NewFlvSubscriber, log |-> <<>>, read |-> ReadIdle]

\* No init message of any kind published yet. early: it was published
\* before any subscriber existed; cleared: DetachPublisher ran after it.
Kinds == {MessageTypeMetadata, MessageTypeVideo, MessageTypeAudio}
NoLatest == [k \in Kinds |-> [msg |-> NilMsg, early |-> FALSE, cleared |-> FALSE]]

\* A bus stream nobody has touched (busEnv is set by each Init).
BusIdle ==
    /\ bus = NewStream(NewStreamKey("live", "a"))
    /\ calls = <<>>
    /\ pubCall = PublishIdle
    /\ readers = [id \in SubscriberIds |-> NewReader]
    /\ published = <<>>
    /\ cachedAt = [id \in SubscriberIds |-> <<>>]
    /\ latest = NoLatest
    /\ latestAt = [id \in SubscriberIds |-> NoLatest]
    /\ snapAt = [id \in SubscriberIds |-> 0]

\* No RTMP connection at the chunk level.
ConnIdle ==
    /\ conn = <<>>
    /\ peer = <<>>
    /\ inbuf = <<>>
    /\ wire = <<>>
    /\ inbox = <<>>

\* ------------------------------------------------ SpecRing: concurrent SPSC
InitRing ==
    /\ ConnIdle
    /\ \E c \in 1..RingCapacityMax,
          s \in {BackpressureDropOldest, BackpressureDropNewest},
          p \in StartPositions :
            rb = AgedRingBuffer(c, s, p)
    /\ wr = WriteIdle
    /\ rd = ReadIdle
    /\ nWritten = 0
    /\ readLog = <<>>
    /\ writeRets = <<>>
    /\ readAt = <<>>
    /\ SvcIdle
    /\ BusIdle
    /\ busEnv = NoBusClients

\* The writer goroutine calls Write(msg) with the next message.
WriteBegin ==
    /\ wr.pc = "idle"
    /\ nWritten < MaxWrites
    /\ wr' = WriteCall(TestMessage(nWritten + 1))
    /\ nWritten' = nWritten + 1
    /\ UNCHANGED <<rb, rd, readLog, writeRets, readAt, svcVars, connVars, busVars>>

\* The writer goroutine takes the next atomic step of its Write call.
WriterStep ==
    LET s == WriteStep(rb, wr) IN
         /\ rb' = s.rb
         /\ wr' = IF s.loc.pc = "done" THEN WriteIdle ELSE s.loc
         /\ writeRets' = IF s.loc.pc = "done"
                         THEN Append(writeRets, s.loc.ret) ELSE writeRets
         /\ UNCHANGED <<rd, nWritten, readLog, readAt, svcVars, connVars, busVars>>

WriteLoadWritePos ==
    /\ wr.pc = "loadW"
    /\ WriterStep
WriteLoadReadPos ==
    /\ wr.pc = "loadR"
    /\ WriterStep
WriteCountDrop ==
    /\ wr.pc = "count"
    /\ WriterStep
WriteAdvanceReadPos ==
    /\ wr.pc = "advance"
    /\ WriterStep
WriteStoreSlot ==
    /\ wr.pc = "store"
    /\ WriterStep
WritePublishPos ==
    /\ wr.pc = "publish"
    /\ WriterStep

\* The reader goroutine calls Read().
ReadBegin ==
    /\ rd.pc = "idle"
    /\ Len(readLog) < MaxReads
    /\ rd' = ReadCall
    /\ UNCHANGED <<rb, wr, nWritten, readLog, writeRets, readAt, svcVars, connVars, busVars>>

\* The reader goroutine takes the next atomic step of its Read call.
ReaderStep ==
    LET s == ReadStep(rb, rd) IN
         /\ rb' = s.rb
         /\ rd' = IF s.loc.pc = "done" THEN ReadIdle ELSE s.loc
         /\ readLog' = IF s.loc.pc = "done" /\ s.loc.ok
                       THEN Append(readLog, s.loc.msg) ELSE readLog
         /\ readAt' = IF s.loc.pc = "done" /\ s.loc.ok
                      THEN Append(readAt, nWritten) ELSE readAt
         /\ UNCHANGED <<wr, nWritten, writeRets, svcVars, connVars, busVars>>

ReadLoadReadPos ==
    /\ rd.pc = "loadR"
    /\ ReaderStep
ReadLoadWritePos ==
    /\ rd.pc = "loadW"
    /\ ReaderStep
ReadFetchSlot ==
    /\ rd.pc = "fetch"
    /\ ReaderStep
ReadAdvanceReadPos ==
    /\ rd.pc = "advance"
    /\ ReaderStep

NextRing ==
    \/ WriteBegin
    \/ WriteLoadWritePos
    \/ WriteLoadReadPos
    \/ WriteCountDrop
    \/ WriteAdvanceReadPos
    \/ WriteStoreSlot
    \/ WritePublishPos
    \/ ReadBegin
    \/ ReadLoadReadPos
    \/ ReadLoadWritePos
    \/ ReadFetchSlot
    \/ ReadAdvanceReadPos

SpecRing == InitRing /\ [][NextRing]_vars

\* -------------------------------------------- SpecRingSeq: whole-call ring
SeqWrite ==
    /\ nWritten < MaxWrites
    /\ LET w == Write(rb, TestMessage(nWritten + 1)) IN
         /\ rb' = w.rb
         /\ writeRets' = Append(writeRets, w.ret)
    /\ nWritten' = nWritten + 1
    /\ UNCHANGED <<wr, rd, readLog, readAt, svcVars, connVars, busVars>>

SeqRead ==
    /\ Len(readLog) < MaxReads
    /\ LET r == Read(rb) IN
         /\ rb' = r.rb
         /\ readLog' = IF r.ok THEN Append(readLog, r.msg) ELSE readLog
         /\ readAt' = IF r.ok THEN Append(readAt, nWritten) ELSE readAt
    /\ UNCHANGED <<wr, rd, nWritten, writeRets, svcVars, connVars, busVars>>

NextRingSeq == SeqWrite \/ SeqRead

SpecRingSeq == InitRing /\ [][NextRingSeq]_vars

\* ----------------------------------------- Spec: RTMP ingest and HTTP-FLV
\* A ring with no caller, for the specifications that do not exercise one.
RingIdle ==
    /\ rb = NewRingBuffer(1, BackpressureDropOldest)
    /\ wr = WriteIdle
    /\ rd = ReadIdle
    /\ nWritten = 0
    /\ readLog = <<>>
    /\ writeRets = <<>>
    /\ readAt = <<>>

Init ==
    /\ ConnIdle
    /\ RingIdle
    /\ registry = [k \in Keys |-> 0]
    /\ heap = <<>>
    /\ owner = <<>>
    /\ sess = [i \in Sessions |-> NewServiceSession]
    /\ http = [h \in HttpHandlers |-> NewHandler]
    /\ nextMsg = 1
    /\ pool = NewPools
    /\ goroutines = <<>>
    /\ failedOn = [i \in Sessions |-> 0]
    /\ env \in Universes
    /\ BusIdle
    /\ busEnv = NoBusClients

\* Session.Close: the state becomes closed and the connection is closed; the
\* handler goes on at ret (back in its loop, or unwound).
SessionClose(s, ret) ==
    [s EXCEPT !.state = StateClosed, !.connOpen = FALSE, !.pc = ret]

\* Entry of ServiceSession.Close: with a publisher it first detaches it.
CloseEntry(s, ret) ==
    IF s.publisher # 0
    THEN [s EXCEPT !.pc = "closeDetach", !.ret = ret]
    ELSE SessionClose(s, ret)

\* A set of subscriber ids as a sequence (the fanout snapshot).
RECURSIVE SetToSeq(_)
SetToSeq(S) ==
    IF S = {} THEN <<>>
    ELSE LET x == CHOOSE y \in S : \A z \in S : y <= z
         IN <<x>> \o SetToSeq(S \ {x})

\* Server.Accept: the next connection is accepted and its handler started.
Accept(i) ==
    /\ sess[i].pc = "absent"
    /\ i <= env.sessions
    /\ \A j \in Sessions : j < i => sess[j].pc # "absent"
    /\ sess' = [sess EXCEPT ![i].pc = "handshake"]
    /\ UNCHANGED <<ringVars, connVars, registry, heap, owner, http, nextMsg, pool, goroutines, failedOn, env, busVars>>

\* A handshake that leaves the session publishing.
SessionHandshakeToPublishing(s, ok) ==
    IF s.state # StateHandshaking \/ ~ok THEN CloseEntry(s, "ended")
    ELSE [s EXCEPT !.state = StatePublishing, !.pc = "loop"]

\* Session.PerformHandshake as handleConnection calls it: refused outside
\* StateHandshaking; ok tells whether PerformServerHandshake succeeded. On
\* an error the handler returns and the deferred Close runs.
SessionHandshake(s, ok) ==
    IF s.state # StateHandshaking \/ ~ok THEN CloseEntry(s, "ended")
    ELSE [s EXCEPT !.state = StateConnected, !.pc = "loop"]

\* handleConnection up to its loop: PerformHandshake succeeds or fails.
PerformHandshake(i) ==
    /\ sess[i].pc = "handshake"
    /\ \E ok \in BOOLEAN :
         sess' = [sess EXCEPT ![i] = SessionHandshake(@, ok)]
    /\ UNCHANGED <<ringVars, connVars, registry, heap, owner, http, nextMsg, pool, goroutines, failedOn, env, busVars>>

\* A connect command: the app is set, then the replies are written; a failed
\* write is a command error and the handler unwinds.
HandleConnect(i) ==
    /\ sess[i].pc = "loop"
    /\ sess[i].connOpen
    /\ \E app \in Apps, ok \in BOOLEAN :
         sess' = [sess EXCEPT ![i] =
                    IF ok THEN [@ EXCEPT !.app = app]
                    ELSE CloseEntry([@ EXCEPT !.app = app], "ended")]
    /\ UNCHANGED <<ringVars, connVars, registry, heap, owner, http, nextMsg, pool, goroutines, failedOn, env, busVars>>

\* A publish command, up to and including registry.GetOrCreate. An empty
\* stream name or an unset app is a command error.
HandlePublish(i) ==
    /\ sess[i].pc = "loop"
    /\ sess[i].connOpen
    /\ \E name \in env.names \cup {""} :
         IF name = "" \/ sess[i].app = ""
         THEN /\ sess' = [sess EXCEPT ![i] = CloseEntry(@, "ended")]
              /\ UNCHANGED <<registry, heap, owner>>
         ELSE LET key == NewStreamKey(sess[i].app, name)
                  g   == GetOrCreate(registry, heap, key)
              IN /\ registry[key] # 0 \/ Len(heap) < MaxStreamObjects
                 /\ registry' = g.reg
                 /\ heap' = g.heap
                 /\ owner' = IF g.created THEN Append(owner, 0) ELSE owner
                 /\ sess' = [sess EXCEPT ![i] = [@ EXCEPT !.pc = "pubAttach",
                                                         !.stream = g.stream]]
    /\ UNCHANGED <<ringVars, connVars, http, nextMsg, pool, goroutines, failedOn, env, busVars>>

\* The rest of HandlePublish: AttachPublisher with the constant id 1; on
\* refusal the command fails and the handler unwinds; on success the session
\* keeps the Publisher, becomes publishing and writes the status replies.
PublishAttach(i) ==
    /\ sess[i].pc = "pubAttach"
    /\ LET st == sess[i].stream
           a  == AttachPublisher(heap[st], 1)
       IN /\ heap' = [heap EXCEPT ![st] = a.stream]
          /\ IF ~a.ok
             THEN /\ sess' = [sess EXCEPT ![i] = CloseEntry(@, "ended")]
                  /\ failedOn' = IF owner[st] # i
                                 THEN [failedOn EXCEPT ![i] = st] ELSE failedOn
                  /\ owner' = owner
             ELSE /\ owner' = [owner EXCEPT ![st] = i]
                  /\ failedOn' = failedOn
                  /\ \E sent \in BOOLEAN :
                       LET s1 == [sess[i] EXCEPT !.publisher = st,
                                                 !.state = StatePublishing,
                                                 !.pc = "loop"]
                       IN sess' = [sess EXCEPT ![i] =
                                     IF sent THEN s1 ELSE CloseEntry(s1, "ended")]
    /\ UNCHANGED <<ringVars, connVars, registry, http, nextMsg, pool, goroutines, env, busVars>>

\* A deleteStream or closeStream command: session.Close() is called and the
\* loop goes on.
HandleDeleteStream(i) ==
    /\ sess[i].pc = "loop"
    /\ sess[i].connOpen
    /\ sess' = [sess EXCEPT ![i] = CloseEntry(@, "loop")]
    /\ UNCHANGED <<ringVars, connVars, registry, heap, owner, http, nextMsg, pool, goroutines, failedOn, env, busVars>>

\* ReadChunk fails (the peer went away, or the connection was closed by an
\* earlier Close): the handler returns and the deferred Close runs.
ReadError(i) ==
    /\ sess[i].pc = "loop"
    /\ sess' = [sess EXCEPT ![i] = CloseEntry(@, "ended")]
    /\ UNCHANGED <<ringVars, connVars, registry, heap, owner, http, nextMsg, pool, goroutines, failedOn, env, busVars>>

\* An audio, video or data message while the session holds a Publisher: the
\* message and its payload are acquired from the pools, the message is built
\* and Stream.Publish caches it if it is an init message.
HandleMediaMessage(i) ==
    /\ sess[i].pc = "loop"
    /\ sess[i].connOpen
    /\ sess[i].publisher # 0
    /\ nextMsg <= env.media
    /\ \E in \in MediaInputs :
         LET msg == MediaMessageFor(nextMsg, in.msgType, nextMsg, in.body)
             st  == sess[i].publisher
         IN /\ heap' = [heap EXCEPT ![st] =
                          IF msg.IsInit THEN cacheInitMessage(@, msg) ELSE @]
            /\ sess' = [sess EXCEPT ![i] = [@ EXCEPT !.pc = "pubFanout", !.msg = msg]]
            /\ pool' = LET acquired == PoolAcquirePayload(PoolAcquireMessage(pool))
                       IN IF msg.IsInit THEN PoolClone(acquired, msg) ELSE acquired
    /\ nextMsg' = nextMsg + 1
    /\ UNCHANGED <<ringVars, connVars, registry, owner, http, goroutines, failedOn, env, busVars>>

\* Stream.Publish, second critical section: the snapshot of the
\* subscribers under the read lock, in the order the range over the
\* subscriber map yields them. With no subscriber Publish returns.
PublishSnapshot(i) ==
    /\ sess[i].pc = "pubFanout"
    /\ \E order \in RangeOrders(Cardinality(heap[sess[i].publisher].subscribers)) :
         LET snap == Ranged(SetToSeq(heap[sess[i].publisher].subscribers), order)
         IN sess' = [sess EXCEPT ![i] =
                       IF snap = <<>> THEN [@ EXCEPT !.pc = "loop", !.msg = NilMsg]
                       ELSE [@ EXCEPT !.pc = "pubWrite", !.snapshot = snap,
                                      !.write = WriteCall(sess[i].msg)]]
    /\ UNCHANGED <<ringVars, connVars, registry, heap, owner, http, nextMsg, pool, goroutines, failedOn, env, busVars>>

\* Stream.Publish, outside the lock: one atomic step of the Write into the
\* ring of the first subscriber left in the snapshot. When the Write
\* returns the loop moves on, and after the last subscriber Publish returns.
PublishWrite(i) ==
    /\ sess[i].pc = "pubWrite"
    /\ LET st == sess[i].publisher
           id == Head(sess[i].snapshot)
           step == WriteStep(Buffer(heap[st], id), sess[i].write)
           rest == FanoutRest(sess[i].snapshot, step.loc.ret)
       IN /\ heap' = [heap EXCEPT ![st].subs[id].buffer = step.rb]
          /\ sess' = [sess EXCEPT ![i] =
                IF step.loc.pc # "done" THEN [@ EXCEPT !.write = step.loc]
                ELSE IF rest = <<>>
                THEN [@ EXCEPT !.pc = "loop", !.msg = NilMsg,
                               !.snapshot = <<>>, !.write = WriteIdle]
                ELSE [@ EXCEPT !.snapshot = rest, !.write = WriteCall(sess[i].msg)]]
    /\ UNCHANGED <<ringVars, connVars, registry, owner, http, nextMsg, pool, goroutines, failedOn, env, busVars>>

\* ServiceSession.Close, first part: Publisher.Detach calls DetachPublisher
\* on the publisher's stream.
CloseDetach(i) ==
    /\ sess[i].pc = "closeDetach"
    /\ LET st == sess[i].publisher
       IN /\ heap' = [heap EXCEPT ![st] = DetachPublisher(@)]
          /\ owner' = [owner EXCEPT ![st] = 0]
    /\ sess' = [sess EXCEPT ![i] = [@ EXCEPT !.pc = "closeRemove"]]
    /\ UNCHANGED <<ringVars, connVars, registry, http, nextMsg, pool, goroutines, failedOn, env, busVars>>

\* ServiceSession.Close, second part: RemoveIfEmpty on the publisher's key,
\* then Session.Close. The session's publisher field is left as it is.
CloseRemove(i) ==
    /\ sess[i].pc = "closeRemove"
    /\ registry' = RemoveIfEmpty(registry, heap, heap[sess[i].publisher].key).reg
    /\ sess' = [sess EXCEPT ![i] = SessionClose(@, @.ret)]
    /\ UNCHANGED <<ringVars, connVars, heap, owner, http, nextMsg, pool, goroutines, failedOn, env, busVars>>

\* ServeHTTP up to registry.Get: a method other than GET answers 405, a
\* path that does not parse 400, no stream under the key 404.
ServeHTTP(h) ==
    /\ http[h].pc = "idle"
    /\ h <= env.handlers
    /\ \E req \in Requests(env.names) :
         LET parsed == ParsePath(req.path)
             st     == Get(registry, NewStreamKey(parsed.app, parsed.name))
             answer(code) == [http[h] EXCEPT !.pc = "done", !.req = req,
                                             !.w = RespWriteHeader(@, code)]
         IN http' = [http EXCEPT ![h] =
                       IF req.method # "GET" THEN answer(StatusMethodNotAllowed)
                       ELSE IF ~parsed.ok THEN answer(StatusBadRequest)
                       ELSE IF st = 0 THEN answer(StatusNotFound)
                       ELSE [@ EXCEPT !.pc = "hasPublisher", !.req = req,
                                      !.stream = st]]
    /\ UNCHANGED <<ringVars, connVars, registry, heap, owner, sess, nextMsg, pool, goroutines, failedOn, env, busVars>>

\* ServeHTTP: a stream without publisher answers 404.
ServeCheckPublisher(h) ==
    /\ http[h].pc = "hasPublisher"
    /\ http' = [http EXCEPT ![h] =
                  IF HasPublisher(heap[@.stream]) THEN [@ EXCEPT !.pc = "attach"]
                  ELSE [@ EXCEPT !.pc = "done",
                                 !.w = RespWriteHeader(@, StatusNotFound)]]
    /\ UNCHANGED <<ringVars, connVars, registry, heap, owner, sess, nextMsg, pool, goroutines, failedOn, env, busVars>>

\* The client of a request in progress closes its connection.
ClientDisconnect(h) ==
    /\ http[h].pc \in {"attach", "process"}
    /\ ~http[h].clientGone
    /\ http' = [http EXCEPT ![h].clientGone = TRUE]
    /\ UNCHANGED <<ringVars, connVars, registry, heap, owner, sess, nextMsg, pool, goroutines, failedOn, env, busVars>>

\* The response headers ServeHTTP sets, and the flush after them.
SetResponseHeaders(w) ==
    RespFlush(RespHeaderSet(RespHeaderSet(RespHeaderSet(w,
        "Content-Type", "video/x-flv"),
        "Cache-Control", "no-cache"),
        "Connection", "keep-alive"))

\* Subscriber.Attach, then the FLV header is written: ServeHTTP returns if
\* that write fails; otherwise it sets the response headers, flushes, and
\* goes on to ProcessMessages.
ServeAttach(h) ==
    /\ http[h].pc = "attach"
    /\ LET a == AttachSubscriber(heap[http[h].stream], HttpSubscriberCapacity,
                                 BackpressureDropOldest)
       IN /\ heap' = [heap EXCEPT ![http[h].stream] = a.stream]
          /\ http' = [http EXCEPT ![h] =
                IF http[h].clientGone
                THEN [@ EXCEPT !.pc = "detach", !.subscriberID = a.id,
                               !.w = RespWriteHeader(@, StatusOK)]
                ELSE [@ EXCEPT !.pc = "process", !.subscriberID = a.id,
                               !.w = SetResponseHeaders(RespWrite(@, FlvFileHeader))]]
    /\ UNCHANGED <<ringVars, connVars, registry, owner, sess, nextMsg, pool, goroutines, failedOn, env, busVars>>

\* One atomic step of the Read of ProcessMessages (the loop between two
\* iterations starts one). A Read that finds the ring empty returns, the
\* loop yields and polls again; one that returns a message hands it to the
\* rest of the iteration. When the iteration writes a tag and the client is
\* gone, the write fails and ProcessMessages returns.
ServeProcess(h) ==
    /\ http[h].pc = "process"
    /\ LET st == http[h].stream
           id == http[h].subscriberID
           call == IF http[h].read.pc = "idle" THEN ReadCall ELSE http[h].read
           step == ReadStep(Buffer(heap[st], id), call)
           after == ProcessMessage(http[h].flv, step.loc.msg)
           writes == Len(after.written) > Len(http[h].flv.written)
       IN /\ heap' = [heap EXCEPT ![st].subs[id].buffer = step.rb]
          /\ http' = [http EXCEPT ![h] =
                IF step.loc.pc # "done" THEN [@ EXCEPT !.read = step.loc]
                ELSE IF ~step.loc.ok THEN [@ EXCEPT !.read = ReadIdle]
                ELSE IF writes /\ http[h].clientGone
                THEN [@ EXCEPT !.pc = "detach", !.read = ReadIdle,
                               !.flv = [after EXCEPT !.written = http[h].flv.written]]
                ELSE [@ EXCEPT !.flv = after, !.read = ReadIdle]]
    /\ UNCHANGED <<ringVars, connVars, registry, owner, sess, nextMsg, pool, goroutines, failedOn, env, busVars>>

\* ServeHTTP returns after a failed write: the deferred Detach runs.
ServeDetach(h) ==
    /\ http[h].pc = "detach"
    /\ heap' = [heap EXCEPT ![http[h].stream] = DetachSubscriber(@, http[h].subscriberID)]
    /\ http' = [http EXCEPT ![h] = [@ EXCEPT !.pc = "done", !.subscriberID = 0]]
    /\ UNCHANGED <<ringVars, connVars, registry, owner, sess, nextMsg, pool, goroutines, failedOn, env, busVars>>

Next ==
    \/ \E i \in Sessions : Accept(i)
    \/ \E i \in Sessions : PerformHandshake(i)
    \/ \E i \in Sessions : HandleConnect(i)
    \/ \E i \in Sessions : HandlePublish(i)
    \/ \E i \in Sessions : PublishAttach(i)
    \/ \E i \in Sessions : HandleDeleteStream(i)
    \/ \E i \in Sessions : ReadError(i)
    \/ \E i \in Sessions : HandleMediaMessage(i)
    \/ \E i \in Sessions : PublishSnapshot(i)
    \/ \E i \in Sessions : PublishWrite(i)
    \/ \E i \in Sessions : CloseDetach(i)
    \/ \E i \in Sessions : CloseRemove(i)
    \/ \E h \in HttpHandlers : ServeHTTP(h)
    \/ \E h \in HttpHandlers : ServeCheckPublisher(h)
    \/ \E h \in HttpHandlers : ClientDisconnect(h)
    \/ \E h \in HttpHandlers : ServeAttach(h)
    \/ \E h \in HttpHandlers : ServeProcess(h)
    \/ \E h \in HttpHandlers : ServeDetach(h)

Spec == Init /\ [][Next]_vars

\* The steps of one connection handler, and of one HTTP request handler.
SessionStep(i) ==
    \/ Accept(i)
    \/ PerformHandshake(i)
    \/ HandleConnect(i)
    \/ HandlePublish(i)
    \/ PublishAttach(i)
    \/ HandleDeleteStream(i)
    \/ ReadError(i)
    \/ HandleMediaMessage(i)
    \/ PublishSnapshot(i)
    \/ PublishWrite(i)
    \/ CloseDetach(i)
    \/ CloseRemove(i)

HandlerStep(h) ==
    \/ ServeHTTP(h)
    \/ ServeCheckPublisher(h)
    \/ ClientDisconnect(h)
    \/ ServeAttach(h)
    \/ ServeProcess(h)
    \/ ServeDetach(h)

\* Every goroutine that can take a step is scheduled, and every client goes
\* on with its connection (it sends its next message or closes).
SpecFair ==
    /\ Spec
    /\ \A i \in Sessions : WF_vars(SessionStep(i))
    /\ \A h \in HttpHandlers : WF_vars(HandlerStep(h))

\* ------------------------------------- SpecSlot: the publisher slot alone
MaxSlotCalls == 4
NumPublishers == 3
PublisherIds == 1..NumPublishers

InitSlot ==
    /\ ConnIdle
    /\ RingIdle
    /\ SvcIdle
    /\ BusIdle
    /\ busEnv = NoBusClients

\* A caller's AttachPublisher(id): one critical section of the stream mutex.
SlotAttach ==
    /\ Len(calls) < MaxSlotCalls
    /\ \E id \in PublisherIds :
         LET a == AttachPublisher(bus, id)
         IN /\ bus' = a.stream
            /\ calls' = Append(calls, [op |-> "attach", id |-> id, ok |-> a.ok,
                                       before |-> bus, after |-> a.stream])
    /\ UNCHANGED <<ringVars, connVars, svcVars, pubCall, readers, published, cachedAt, latest, latestAt, snapAt, busEnv>>

\* A caller's DetachPublisher().
SlotDetach ==
    /\ Len(calls) < MaxSlotCalls
    /\ bus' = DetachPublisher(bus)
    /\ calls' = Append(calls, [op |-> "detach", id |-> 0, ok |-> TRUE,
                               before |-> bus, after |-> DetachPublisher(bus)])
    /\ UNCHANGED <<ringVars, connVars, svcVars, pubCall, readers, published, cachedAt, latest, latestAt, snapAt, busEnv>>

NextSlot == SlotAttach \/ SlotDetach

SpecSlot == InitSlot /\ [][NextSlot]_vars

\* The publishers attached after the calls made so far: those whose
\* AttachPublisher returned true since the last DetachPublisher.
RECURSIVE Holders(_)
Holders(cs) ==
    IF cs = <<>> THEN {}
    ELSE LET c == cs[Len(cs)]
             rest == SubSeq(cs, 1, Len(cs) - 1)
         IN IF c.op = "detach" THEN {}
            ELSE IF c.ok THEN Holders(rest) \cup {c.id}
            ELSE Holders(rest)

\* ------------------- SpecRegistry: one Registry under concurrent callers
\* Each call is one critical section of the registry mutex, so a run is the
\* order in which the callers' goroutines got the mutex.
MaxRegistryCalls == 4

InitRegistry ==
    /\ ConnIdle
    /\ RingIdle
    /\ SvcIdle
    /\ BusIdle
    /\ busEnv = NoBusClients

\* A caller's GetOrCreate(key).
RegistryGetOrCreate ==
    /\ Len(calls) < MaxRegistryCalls
    /\ \E k \in Keys :
         LET g == GetOrCreate(registry, heap, k)
         IN /\ registry' = g.reg
            /\ heap' = g.heap
            /\ calls' = Append(calls, [op |-> "GetOrCreate", key |-> k,
                                       stream |-> g.stream, ok |-> g.created])
    /\ UNCHANGED <<ringVars, connVars, owner, sess, http, nextMsg, pool, goroutines, failedOn, env, bus, pubCall,
                   readers, published, cachedAt, latest, latestAt, snapAt, busEnv>>

\* A caller's Remove(key).
RegistryRemove ==
    /\ Len(calls) < MaxRegistryCalls
    /\ \E k \in Keys :
         LET r == Remove(registry, heap, k)
         IN /\ registry' = r.reg
            /\ calls' = Append(calls, [op |-> "Remove", key |-> k,
                                       stream |-> registry[k], ok |-> r.ok])
    /\ UNCHANGED <<ringVars, connVars, heap, owner, sess, http, nextMsg, pool, goroutines, failedOn, env, bus, pubCall,
                   readers, published, cachedAt, latest, latestAt, snapAt, busEnv>>

\* A caller that holds a stream attaches a publisher to it, after which
\* Remove refuses the stream.
RegistryAttachPublisher ==
    /\ \E st \in 1..Len(heap) :
         /\ ~HasPublisher(heap[st])
         /\ heap' = [heap EXCEPT ![st] = AttachPublisher(@, 1).stream]
    /\ UNCHANGED <<ringVars, connVars, registry, owner, sess, http, nextMsg, pool, goroutines, failedOn, env, busVars>>

NextRegistry == RegistryGetOrCreate \/ RegistryRemove \/ RegistryAttachPublisher

SpecRegistry == InitRegistry /\ [][NextRegistry]_vars

\* ------------------------- SpecStream: one stream, publisher and consumers
InitStream ==
    /\ ConnIdle
    /\ RingIdle
    /\ SvcIdle
    /\ BusIdle
    /\ busEnv \in BusUniverses

\* latest after an init message of its kind is published.
NoteInit(l, msg, nobodyYet) ==
    [l EXCEPT ![msg.Type] = [msg |-> msg, early |-> nobodyYet, cleared |-> FALSE]]

\* latest after DetachPublisher.
NoteDetach(l) ==
    [k \in Kinds |-> IF l[k].msg = NilMsg THEN l[k] ELSE [l[k] EXCEPT !.cleared = TRUE]]

\* Publish(msg), first critical section: an init message is cached.
StreamPublish ==
    /\ pubCall.pc = "idle"
    /\ Len(published) < MaxPublish
    /\ Len(published) < Len(busEnv.script)
    /\ LET id  == Len(published) + 1
           in  == busEnv.script[id]
           msg == MediaMessageFor(id, in.msgType, id, in.body)
       IN /\ bus' = IF msg.IsInit THEN cacheInitMessage(bus, msg) ELSE bus
          /\ latest' = IF msg.IsInit THEN NoteInit(latest, msg, bus.nextSubID = 1)
                       ELSE latest
          /\ pubCall' = [PublishIdle EXCEPT !.pc = "snapshot", !.msg = msg]
          /\ published' = Append(published, msg)
    /\ UNCHANGED <<ringVars, connVars, svcVars, calls, readers, cachedAt, latestAt, snapAt, busEnv>>

\* Publish, second critical section: the snapshot of the subscribers, in
\* the order the range over the subscriber map yields them.
StreamSnapshot ==
    /\ pubCall.pc = "snapshot"
    /\ \E order \in RangeOrders(Cardinality(bus.subscribers)) :
         LET snap == Ranged(SetToSeq(bus.subscribers), order)
         IN pubCall' = IF snap = <<>> THEN PublishIdle
                       ELSE [pubCall EXCEPT !.pc = "write", !.snapshot = snap,
                                            !.write = WriteCall(pubCall.msg)]
    /\ UNCHANGED <<ringVars, connVars, svcVars, bus, calls, readers, published, cachedAt,
                   latest, latestAt, snapAt, busEnv>>

\* Publish, outside the lock: one atomic step of the Write into the ring of
\* the first subscriber left in the snapshot. When the Write returns the
\* loop moves on to the next subscriber.
StreamWrite ==
    /\ pubCall.pc = "write"
    /\ LET id == Head(pubCall.snapshot)
           step == WriteStep(Buffer(bus, id), pubCall.write)
           rest == FanoutRest(pubCall.snapshot, step.loc.ret)
       IN /\ bus' = [bus EXCEPT !.subs[id].buffer = step.rb]
          /\ pubCall' = IF step.loc.pc # "done"
                        THEN [pubCall EXCEPT !.write = step.loc]
                        ELSE IF rest = <<>> THEN PublishIdle
                        ELSE [pubCall EXCEPT !.snapshot = rest,
                                             !.write = WriteCall(pubCall.msg)]
    /\ UNCHANGED <<ringVars, connVars, svcVars, calls, readers, published, cachedAt,
                   latest, latestAt, snapAt, busEnv>>

\* The cached init messages in the order AttachSubscriber replays them.
CachedInit(st) ==
    SelectSeq(<<st.initMeta, st.initVideo, st.initAudio>>, LAMBDA m : m # NilMsg)

\* AttachSubscriber(capacity, strategy) by a new consumer.
StreamAttachSubscriber ==
    /\ bus.nextSubID <= MaxSubscribers
    /\ bus.nextSubID <= busEnv.subscribers
    /\ LET a == AttachSubscriber(bus, busEnv.capacity, busEnv.strategy)
       IN /\ bus' = a.stream
          /\ cachedAt' = [cachedAt EXCEPT ![a.id] = CachedInit(bus)]
          /\ latestAt' = [latestAt EXCEPT ![a.id] = latest]
          /\ snapAt' = [snapAt EXCEPT ![a.id] =
                IF pubCall.pc = "snapshot" THEN Len(published) - 1 ELSE Len(published)]
    /\ UNCHANGED <<ringVars, connVars, svcVars, calls, pubCall, readers, published, latest, busEnv>>

\* DetachSubscriber(id) by an attached consumer.
StreamDetachSubscriber ==
    /\ \E id \in bus.subscribers : bus' = DetachSubscriber(bus, id)
    /\ UNCHANGED <<ringVars, connVars, svcVars, calls, pubCall, readers, published,
                   cachedAt, latest, latestAt, snapAt, busEnv>>

\* DetachPublisher() when it has something to clear.
StreamDetachPublisher ==
    /\ bus' = DetachPublisher(bus)
    /\ bus' # bus
    /\ latest' = NoteDetach(latest)
    /\ UNCHANGED <<ringVars, connVars, svcVars, calls, pubCall, readers, published,
                   cachedAt, latestAt, snapAt, busEnv>>

\* The record of a message read: what ProcessMessages did with it.
ReadRecord(flv, msg) ==
    LET after == ProcessMessage(flv, msg)
        wrote == Len(after.written) > Len(flv.written)
    IN [msg |-> msg, forwarded |-> wrote,
        ts |-> IF wrote THEN after.written[Len(after.written)].Timestamp ELSE 0]

\* One atomic step of a consumer's Read (a consumer between calls starts
\* one). A Read that returns a message hands it to one iteration of
\* ProcessMessages; one that finds the ring empty returns and the consumer
\* polls again.
StreamRead ==
    /\ \E id \in 1..Len(bus.subs) :
         LET call == IF readers[id].read.pc = "idle" THEN ReadCall
                     ELSE readers[id].read
             step == ReadStep(Buffer(bus, id), call)
         IN /\ readers[id].read.pc # "idle" \/ Len(readers[id].log) < MaxRead
            /\ bus' = [bus EXCEPT !.subs[id].buffer = step.rb]
            /\ readers' = [readers EXCEPT ![id] =
                  IF step.loc.pc # "done" THEN [@ EXCEPT !.read = step.loc]
                  ELSE IF ~step.loc.ok THEN [@ EXCEPT !.read = ReadIdle]
                  ELSE [flv |-> ProcessMessage(@.flv, step.loc.msg),
                        log |-> Append(@.log, ReadRecord(@.flv, step.loc.msg)),
                        read |-> ReadIdle]]
    /\ UNCHANGED <<ringVars, connVars, svcVars, calls, pubCall, published, cachedAt,
                   latest, latestAt, snapAt, busEnv>>

NextStream ==
    \/ StreamPublish
    \/ StreamSnapshot
    \/ StreamWrite
    \/ StreamAttachSubscriber
    \/ StreamDetachSubscriber
    \/ StreamDetachPublisher
    \/ StreamRead

SpecStream == InitStream /\ [][NextStream]_vars

\* The publishing goroutine is scheduled while it is inside Publish, and the
\* stream mutex is granted to it; nothing is assumed of the consumers, which
\* may read slowly or never.
SpecStreamFair ==
    /\ SpecStream
    /\ WF_vars(StreamSnapshot)
    /\ WF_vars(StreamWrite)

\* ------------------------------ SpecConn: one RTMP connection, byte by byte
StrCam == <<99, 97, 109>>
StrTv == <<116, 118>>

\* A chunk as the client writes it. ts is the timestamp of a format-0 header
\* and the delta of a format-1 or format-2 header; length is the length of
\* the message the chunk belongs to; start tells whether the chunk is the
\* first of its message; ext tells whether the 4-byte extended timestamp
\* follows the header.
Chunk(fmt, csID, ts, length, msgType, streamID, payload, start) ==
    [fmt |-> fmt, csID |-> csID, ts |-> ts, length |-> length,
     msgType |-> msgType, streamID |-> streamID, payload |-> payload,
     start |-> start, ext |-> fmt # ChunkFmt3 /\ Geq32(ts, ExtendedMarker)]

\* A format-3 chunk after a header with the extended timestamp marker: the
\* extended field is repeated.
ChunkExt3(csID, ts, length, msgType, payload, start) ==
    [Chunk(ChunkFmt3, csID, ts, length, msgType, U32(0), payload, start)
        EXCEPT !.ext = TRUE]

\* The bytes of a chunk on the wire.
ChunkBytes(c) ==
    LET field == IF c.ext THEN ExtendedMarker ELSE c.ts
        header ==
            CASE c.fmt = ChunkFmt0 ->
                    PutU24BE(field) \o PutU24BE(U32(c.length)) \o <<c.msgType>>
                        \o PutU32LE(c.streamID)
              [] c.fmt = ChunkFmt1 ->
                    PutU24BE(field) \o PutU24BE(U32(c.length)) \o <<c.msgType>>
              [] c.fmt = ChunkFmt2 -> PutU24BE(field)
              [] c.fmt = ChunkFmt3 -> <<>>
    IN WriteBasicHeader(c.fmt, c.csID) \o header
          \o (IF c.ext THEN PutU32BE(c.ts) ELSE <<>>) \o c.payload

\* A whole message in one format-0 chunk.
Whole(csID, ts, msgType, streamID, body) ==
    Chunk(ChunkFmt0, csID, U32(ts), Len(body), msgType, U32(streamID), body, TRUE)

\* The commands a publisher sends, their values written one after the other.
ConnectBody(app) ==
    EncodeCommandPlain(<<AmfString(StrConnect), AmfNumber(Float64(1)),
                         AmfObject(<< <<StrApp, AmfString(app)>> >>)>>)
ConnectBodyBare ==
    EncodeCommandPlain(<<AmfString(StrConnect), AmfNumber(Float64(1)), AmfNull>>)
CreateStreamBody ==
    EncodeCommandPlain(<<AmfString(StrCreateStream), AmfNumber(Float64(2)), AmfNull>>)
PublishBody ==
    EncodeCommandPlain(<<AmfString(StrPublish), AmfNumber(Float64(3)), AmfNull,
                         AmfString(StrCam), AmfString(StrLive)>>)
PublishBodyShort ==
    EncodeCommandPlain(<<AmfString(StrPublish), AmfNumber(Float64(3)),
                         AmfString(StrCam), AmfString(StrLive)>>)
DeleteStreamBody ==
    EncodeCommandPlain(<<AmfString(StrDeleteStream), AmfNumber(Float64(4)), AmfNull,
                         AmfNumber(Float64(1))>>)

Command(streamID, body) == Whole(3, 0, MessageTypeCommandAMF0, streamID, body)
SetChunkSizeTo(size) ==
    Whole(2, 0, MessageTypeSetChunkSize, 0, CreateSetChunkSize(size))

\* The chunk size the client switches to before it splits its messages.
SmallChunkSize == U32(2)
\* A chunk size that still holds a connect command whole.
MediumChunkSize == U32(64)
\* A timestamp delta that needs the extended field: 2^24.
LongDelta == <<256, 0>>

\* connect, createStream, publish, a keyframe.
PlanPublish(app, publishBody) ==
    << Command(0, ConnectBody(app)), Command(0, CreateStreamBody),
       Command(1, publishBody), Whole(6, 40, RtmpMessageTypeVideo, 1, <<23, 1>>) >>

\* connect twice.
PlanConnectTwice ==
    << Command(0, ConnectBody(StrLive)), Command(0, ConnectBody(StrTv)),
       Command(0, CreateStreamBody) >>

\* A chunk size, then connect without an app, media before any publish,
\* deleteStream.
PlanMedia ==
    << SetChunkSizeTo(MediumChunkSize), Command(0, ConnectBodyBare),
       Whole(6, 40, RtmpMessageTypeVideo, 1, <<23, 1>>),
       Command(0, DeleteStreamBody) >>

\* Set-Chunk-Size bodies ParseSetChunkSize refuses, a window size, connect.
PlanControl ==
    << Whole(2, 0, MessageTypeSetChunkSize, 0, <<0, 0, 2>>),
       SetChunkSizeTo(LongDelta),
       Whole(2, 0, MessageTypeWinAckSize, 0, CreateWindowAckSize(AckWindowSize)),
       Command(0, ConnectBody(StrLive)) >>

\* Messages split into chunks of two bytes on chunk stream 4, a message of
\* chunk stream 6 between them; their first chunks use formats 0, 1, 2 and 3.
PlanChunks ==
    << SetChunkSizeTo(SmallChunkSize),
       Chunk(ChunkFmt0, 4, U32(10), 5, RtmpMessageTypeVideo, U32(1), <<39, 1>>, TRUE),
       Chunk(ChunkFmt0, 6, U32(3), 3, RtmpMessageTypeAudio, U32(1), <<175, 1>>, TRUE),
       Chunk(ChunkFmt3, 4, U32(0), 5, RtmpMessageTypeVideo, U32(1), <<2, 3>>, FALSE),
       Chunk(ChunkFmt3, 6, U32(0), 3, RtmpMessageTypeAudio, U32(1), <<9>>, FALSE),
       Chunk(ChunkFmt3, 4, U32(0), 5, RtmpMessageTypeVideo, U32(1), <<4>>, FALSE),
       Chunk(ChunkFmt1, 4, U32(5), 3, RtmpMessageTypeVideo, U32(1), <<39, 1>>, TRUE),
       Chunk(ChunkFmt3, 4, U32(0), 3, RtmpMessageTypeVideo, U32(1), <<5>>, FALSE),
       Chunk(ChunkFmt2, 4, U32(7), 3, RtmpMessageTypeVideo, U32(1), <<39, 1>>, TRUE),
       Chunk(ChunkFmt3, 4, U32(0), 3, RtmpMessageTypeVideo, U32(1), <<6>>, FALSE),
       Chunk(ChunkFmt3, 4, U32(0), 3, RtmpMessageTypeVideo, U32(1), <<39, 1>>, TRUE),
       Chunk(ChunkFmt3, 4, U32(0), 3, RtmpMessageTypeVideo, U32(1), <<7>>, FALSE) >>

\* A message whose second chunk repeats the header in format fmt, then a
\* message that reuses the header.
PlanRepeatedHeader(fmt) ==
    << SetChunkSizeTo(SmallChunkSize),
       Chunk(ChunkFmt0, 4, U32(10), 4, RtmpMessageTypeVideo, U32(1), <<39, 1>>, TRUE),
       Chunk(fmt, 4, IF fmt = ChunkFmt0 THEN U32(10) ELSE U32(0), 4,
             RtmpMessageTypeVideo, U32(1), <<2, 3>>, FALSE),
       Chunk(ChunkFmt3, 4, U32(0), 4, RtmpMessageTypeVideo, U32(1), <<39, 1>>, TRUE),
       Chunk(ChunkFmt3, 4, U32(0), 4, RtmpMessageTypeVideo, U32(1), <<4, 5>>, FALSE) >>

\* A delta of 2^24 in a format-2 header, then a format-3 chunk that starts
\* the next message and one that continues it.
PlanLongDelta ==
    << SetChunkSizeTo(SmallChunkSize),
       Chunk(ChunkFmt0, 4, U32(10), 3, RtmpMessageTypeVideo, U32(1), <<39, 1>>, TRUE),
       Chunk(ChunkFmt3, 4, U32(0), 3, RtmpMessageTypeVideo, U32(1), <<1>>, FALSE),
       Chunk(ChunkFmt2, 4, LongDelta, 3, RtmpMessageTypeVideo, U32(1), <<39, 1>>, TRUE),
       ChunkExt3(4, LongDelta, 3, RtmpMessageTypeVideo, <<2>>, FALSE),
       ChunkExt3(4, LongDelta, 3, RtmpMessageTypeVideo, <<39, 1>>, TRUE),
       ChunkExt3(4, LongDelta, 3, RtmpMessageTypeVideo, <<3>>, FALSE) >>

Plans ==
    { PlanPublish(StrTv, PublishBody), PlanPublish(StrLive, PublishBodyShort),
      PlanConnectTwice, PlanMedia, PlanControl, PlanChunks,
      PlanRepeatedHeader(ChunkFmt0), PlanRepeatedHeader(ChunkFmt1),
      PlanRepeatedHeader(ChunkFmt2), PlanLongDelta }

\* The stream keys a publish on the connection can name.
ConnKeys == {NewStreamKey(a, n) : a \in {StrLive, StrTv}, n \in {StrCam, StrLive}}

\* How many writes a turn of the loop can make at most, and the budgets a
\* turn can be given: a budget below the writes it makes breaks the
\* connection at that write.
MaxReplies == 4
WriteBudgets == 0..MaxReplies

InitConn ==
    /\ RingIdle
    /\ SvcIdle
    /\ BusIdle
    /\ busEnv = NoBusClients
    /\ conn = [s |-> NewConnSession([k \in ConnKeys |-> 0]), pc |-> "handshake",
               turns |-> 0, broken |-> FALSE]
    /\ peer \in {[plan |-> p, sent |-> 0, open |-> TRUE] : p \in Plans}
    /\ inbuf = <<>>
    /\ wire = <<>>
    /\ inbox = <<>>

\* handleConnection up to its loop: the handshake moves the session to
\* Connected; a failed handshake ends the handler, whose deferred Close
\* closes the session.
ConnHandshake ==
    /\ conn # <<>>
    /\ conn.pc = "handshake"
    /\ \E ok \in BOOLEAN :
          conn' = IF ok /\ conn.s.state = StateHandshaking
                  THEN [conn EXCEPT !.s.state = StateConnected, !.pc = "loop"]
                  ELSE [conn EXCEPT !.s = SessionServiceClose(@), !.pc = "done"]
    /\ UNCHANGED <<ringVars, svcVars, busVars, peer, inbuf, wire, inbox>>

\* The client writes its next chunk.
PeerSend ==
    /\ conn # <<>>
    /\ conn.pc # "handshake"
    /\ peer.open
    /\ peer.sent < Len(peer.plan)
    /\ peer' = [peer EXCEPT !.sent = @ + 1]
    /\ inbuf' = inbuf \o ChunkBytes(peer.plan[peer.sent + 1])
    /\ UNCHANGED <<ringVars, svcVars, busVars, conn, wire, inbox>>

\* The client closes the connection.
PeerClose ==
    /\ conn # <<>>
    /\ peer.open
    /\ peer' = [peer EXCEPT !.open = FALSE]
    /\ UNCHANGED <<ringVars, svcVars, busVars, conn, inbuf, wire, inbox>>

\* What the map ranges of the turn that completes message m can yield: a
\* connect command has sendConnectResult range over a map of 2 keys and one
\* of 4, a publish command has sendOnStatus range over one of 3; no other
\* turn ranges over a map.
TurnOrders(m) ==
    LET name == IF m.complete /\ m.msgType = MessageTypeCommandAMF0
                THEN Bind(DecodeCommand(m.body), LAMBDA d :
                        IF d.err \/ d.arr = <<>> THEN <<>>
                        ELSE IF d.arr[1].t # "string" THEN <<>>
                        ELSE d.arr[1].s)
                ELSE <<>>
    IN CASE name = StrConnect -> RangeOrders(2) \X RangeOrders(4)
         [] name = StrPublish -> RangeOrders(3) \X {<<1, 2, 3, 4>>}
         [] OTHER -> {<< <<1, 2, 3>>, <<1, 2, 3, 4>> >>}

\* One turn of handleConnection's loop with a chunk to read. A command that
\* returns an error ends the handler, whose deferred Close closes the
\* session. The turn's map ranges yield any of their orders.
ServerTurn ==
    /\ conn # <<>>
    /\ conn.pc = "loop"
    /\ conn.s.connOpen
    /\ ~ReadChunk(conn.s.parser, inbuf).err
    /\ \E budget \in (IF conn.broken THEN {0} ELSE WriteBudgets),
          iter \in TurnOrders(LoopTurn(conn.s, inbuf, 0, << <<1, 2, 3>>, <<1, 2, 3, 4>> >>).msg) :
       \E t \in {LoopTurn(conn.s, inbuf, budget, iter)} :
             /\ conn' = IF t.err
                        THEN [conn EXCEPT !.s = SessionServiceClose(t.s),
                                          !.pc = "done", !.turns = @ + 1,
                                          !.broken = @ \/ t.broken]
                        ELSE [conn EXCEPT !.s = t.s, !.turns = @ + 1,
                                          !.broken = @ \/ t.broken]
             /\ inbuf' = t.rest
             /\ wire' = wire \o t.out
             /\ inbox' = IF t.msg.complete
                         THEN Append(inbox,
                                [csID |-> ReadChunk(conn.s.parser, inbuf).csID,
                                 msgType |-> t.msg.msgType,
                                 timestamp |-> t.msg.timestamp,
                                 streamID |-> t.msg.streamID,
                                 body |-> t.msg.body,
                                 at |-> conn.turns + 1,
                                 wireAt |-> Len(wire)])
                         ELSE inbox
    /\ UNCHANGED <<ringVars, svcVars, busVars, peer>>

\* ReadChunk returns an error: the session has closed the connection, or the
\* client has and what it left is not a whole chunk. The handler ends.
ServerReadError ==
    /\ conn # <<>>
    /\ conn.pc = "loop"
    /\ \/ ~conn.s.connOpen
       \/ ~peer.open /\ ReadChunk(conn.s.parser, inbuf).err
    /\ conn' = [conn EXCEPT !.s = SessionServiceClose(@), !.pc = "done"]
    /\ UNCHANGED <<ringVars, svcVars, busVars, peer, inbuf, wire, inbox>>

NextConn ==
    \/ ConnHandshake
    \/ PeerSend
    \/ PeerClose
    \/ ServerTurn
    \/ ServerReadError

SpecConn == InitConn /\ [][NextConn]_vars

\* ----------------------- SpecChunk: WriteChunk into a ChunkParser, end to end
\* A sender writes messages with WriteChunk at one chunk size; the receiver
\* reads them with a ChunkParser set to the same size, one ReadChunk and
\* GetCompleteMessage at a time.
MaxMessages == 2

\* Bodies shorter than, equal to and longer than the small chunk size, and
\* the empty body.
ChunkBodies == {<<>>, <<1>>, <<1, 2>>, <<1, 2, 3, 4, 5>>}

\* Timestamps below the extended marker, at it, and above it.
ChunkTimestamps == {U32(0), <<255, 65534>>, ExtendedMarker, <<256, 7>>}

\* Chunk stream ids of the one-byte, two-byte and three-byte basic header.
ChunkStreamIds == {4, 70, 400}

ChunkMessages ==
    {[csID |-> id, msgType |-> RtmpMessageTypeVideo, timestamp |-> ts,
      streamID |-> U32(1), body |-> b] :
        id \in ChunkStreamIds, ts \in ChunkTimestamps, b \in ChunkBodies}

ChunkPlans ==
    UNION {[1..n -> ChunkMessages] : n \in 1..MaxMessages}

InitChunk ==
    /\ RingIdle
    /\ SvcIdle
    /\ BusIdle
    /\ busEnv = NoBusClients
    /\ \E size \in {SmallChunkSize, U32(DefaultChunkSize)} :
          conn = [parser |-> ParserSetChunkSize(NewChunkParser, size),
                  chunkSize |-> size]
    /\ peer \in {[plan |-> p, sent |-> 0] : p \in ChunkPlans}
    /\ inbuf = <<>>
    /\ wire = <<>>
    /\ inbox = <<>>

\* The sender writes its next message with WriteChunk.
ChunkSend ==
    /\ peer.sent < Len(peer.plan)
    /\ LET msg == peer.plan[peer.sent + 1]
       IN inbuf' = inbuf \o WriteChunk(msg.csID, msg.msgType, msg.timestamp,
                                       msg.streamID, msg.body, conn.chunkSize)
    /\ peer' = [peer EXCEPT !.sent = @ + 1]
    /\ UNCHANGED <<ringVars, svcVars, busVars, conn, wire, inbox>>

\* The receiver has the bytes of a whole chunk to read.
ChunkReadable == inbuf # <<>> /\ ~ReadChunk(conn.parser, inbuf).err

\* The receiver reads one chunk and asks for the complete message.
ChunkReceive ==
    /\ ChunkReadable
    /\ \E rc \in {ReadChunk(conn.parser, inbuf)} :
       \E gm \in {GetCompleteMessage(rc.parser, rc.csID)} :
          /\ conn' = [conn EXCEPT !.parser = gm.parser]
          /\ inbuf' = rc.rest
          /\ inbox' = IF gm.complete
                       THEN Append(inbox, [csID |-> rc.csID, msgType |-> gm.msgType,
                                           timestamp |-> gm.timestamp,
                                           streamID |-> gm.streamID, body |-> gm.body])
                       ELSE inbox
    /\ UNCHANGED <<ringVars, svcVars, busVars, peer, wire>>

NextChunk == ChunkSend \/ ChunkReceive

SpecChunk == InitChunk /\ [][NextChunk]_vars

\* ------------- SpecLocks: the registry mutex and the streams' mutexes
\* Goroutines call Registry.GetOrCreate, Get and Remove, and AttachPublisher
\* and DetachPublisher on the stream they were handed. Every Lock, RLock and
\* (deferred) Unlock is a step of its own, so a state shows which mutexes a
\* goroutine holds between them.
NumCallers == 2
Callers == 1..NumCallers
MaxLockCalls == 3

RegistryMutex == [of |-> "registry", id |-> 0]

\* The mutex of the Stream object at heap index st.
StreamMutex(st) == [of |-> "stream", id |-> st]

\* A goroutine outside any call: stream is the *Stream it got from the
\* registry (0 is nil), held the mutexes it holds, oldest first.
NewCaller ==
    [pc |-> "idle", op |-> "", key |-> NewStreamKey("", ""), stream |-> 0,
     target |-> 0, empty |-> FALSE, held |-> <<>>, calls |-> 0]

\* sync.RWMutex: Lock waits until nobody else holds the mutex, RLock until
\* no writer holds it.
CanLock(gs, t, mutex, mode) ==
    \A u \in DOMAIN gs \ {t} :
        \A i \in 1..Len(gs[u].held) :
            gs[u].held[i].mutex = mutex =>
                (mode = "r" /\ gs[u].held[i].mode = "r")

Acquire(g, mutex, mode) ==
    [g EXCEPT !.held = Append(@, [mutex |-> mutex, mode |-> mode])]

\* A broken unlock that gives up the mutex taken first.
ReleaseOldest(g) == [g EXCEPT !.held = Tail(@)]

\* The deferred Unlock/RUnlock of the method that is returning: the mutex
\* taken last.
Release(g) == [g EXCEPT !.held = SubSeq(@, 1, Len(@) - 1)]

Returned(g) == [Release(g) EXCEPT !.pc = "idle"]

InitLocks ==
    /\ ConnIdle
    /\ RingIdle
    /\ BusIdle
    /\ busEnv = NoBusClients
    /\ registry = [k \in Keys |-> 0]
    /\ heap = <<>>
    /\ owner = <<>>
    /\ sess = [i \in Sessions |-> NewServiceSession]
    /\ http = [h \in HttpHandlers |-> NewHandler]
    /\ nextMsg = 1
    /\ pool = NewPools
    /\ failedOn = [i \in Sessions |-> 0]
    /\ env = Universe(0, 0, 0, {})
    /\ goroutines = [t \in Callers |-> NewCaller]

\* r.mu.Lock() of GetOrCreate and Remove, r.mu.RLock() of Get.
RegistryLock(t) ==
    /\ goroutines[t].pc = "idle"
    /\ goroutines[t].calls < MaxLockCalls
    /\ \E op \in {"GetOrCreate", "Get", "Remove"}, k \in Keys :
         LET mode == IF op = "Get" THEN "r" ELSE "w"
         IN /\ CanLock(goroutines, t, RegistryMutex, mode)
            /\ goroutines' = [goroutines EXCEPT ![t] =
                 [Acquire(@, RegistryMutex, mode) EXCEPT
                     !.pc = "registryLocked", !.op = op, !.key = k,
                     !.calls = @ + 1]]
    /\ UNCHANGED <<ringVars, connVars, busVars, registry, heap, owner, sess,
                   http, nextMsg, pool, failedOn, env>>

\* The body of the registry method under r.mu. GetOrCreate and Get return;
\* Remove returns false for an absent key and goes on to stream.IsEmpty()
\* otherwise.
RegistryBody(t) ==
    /\ goroutines[t].pc = "registryLocked"
    /\ LET g == goroutines[t]
           made == GetOrCreate(registry, heap, g.key)
       IN CASE g.op = "GetOrCreate" ->
                 /\ registry' = made.reg
                 /\ heap' = made.heap
                 /\ goroutines' = [goroutines EXCEPT ![t] =
                      [Returned(g) EXCEPT !.stream = made.stream]]
            [] g.op = "Get" ->
                 /\ goroutines' = [goroutines EXCEPT ![t] =
                      [Returned(g) EXCEPT !.stream = Get(registry, g.key)]]
                 /\ UNCHANGED <<registry, heap>>
            [] g.op = "Remove" ->
                 /\ goroutines' = [goroutines EXCEPT ![t] =
                      IF registry[g.key] = 0 THEN Returned(g)
                      ELSE [g EXCEPT !.pc = "isEmpty",
                                     !.target = registry[g.key]]]
                 /\ UNCHANGED <<registry, heap>>
    /\ UNCHANGED <<ringVars, connVars, busVars, owner, sess, http, nextMsg,
                   pool, failedOn, env>>

\* s.mu.RLock() of the stream.IsEmpty() that Remove calls.
IsEmptyLock(t) ==
    /\ goroutines[t].pc = "isEmpty"
    /\ CanLock(goroutines, t, StreamMutex(goroutines[t].target), "r")
    /\ goroutines' = [goroutines EXCEPT ![t] =
         [Acquire(@, StreamMutex(@.target), "r") EXCEPT !.pc = "isEmptyLocked"]]
    /\ UNCHANGED <<ringVars, connVars, busVars, registry, heap, owner, sess,
                   http, nextMsg, pool, failedOn, env>>

\* IsEmpty reads the stream and returns through its deferred RUnlock.
IsEmptyReturn(t) ==
    /\ goroutines[t].pc = "isEmptyLocked"
    /\ goroutines' = [goroutines EXCEPT ![t] =
         [Release(@) EXCEPT !.pc = "isEmptyDone",
                            !.empty = IsEmpty(heap[goroutines[t].target])]]
    /\ UNCHANGED <<ringVars, connVars, busVars, registry, heap, owner, sess,
                   http, nextMsg, pool, failedOn, env>>

\* The rest of Remove: delete the key if IsEmpty said so, and return.
RemoveReturn(t) ==
    /\ goroutines[t].pc = "isEmptyDone"
    /\ registry' = IF goroutines[t].empty
                   THEN [registry EXCEPT ![goroutines[t].key] = 0]
                   ELSE registry
    /\ goroutines' = [goroutines EXCEPT ![t] = Returned(@)]
    /\ UNCHANGED <<ringVars, connVars, busVars, heap, owner, sess, http,
                   nextMsg, pool, failedOn, env>>

\* s.mu.Lock() of AttachPublisher or DetachPublisher on the goroutine's
\* stream.
StreamLock(t) ==
    /\ goroutines[t].pc = "idle"
    /\ goroutines[t].stream # 0
    /\ goroutines[t].calls < MaxLockCalls
    /\ CanLock(goroutines, t, StreamMutex(goroutines[t].stream), "w")
    /\ \E op \in {"AttachPublisher", "DetachPublisher"} :
         goroutines' = [goroutines EXCEPT ![t] =
             [Acquire(@, StreamMutex(@.stream), "w") EXCEPT
                 !.pc = "streamLocked", !.op = op, !.calls = @ + 1]]
    /\ UNCHANGED <<ringVars, connVars, busVars, registry, heap, owner, sess,
                   http, nextMsg, pool, failedOn, env>>

\* The body of AttachPublisher or DetachPublisher and its deferred Unlock.
StreamBody(t) ==
    /\ goroutines[t].pc = "streamLocked"
    /\ heap' = [heap EXCEPT ![goroutines[t].stream] =
                  IF goroutines[t].op = "AttachPublisher"
                  THEN AttachPublisher(@, t).stream
                  ELSE DetachPublisher(@)]
    /\ goroutines' = [goroutines EXCEPT ![t] = Returned(@)]
    /\ UNCHANGED <<ringVars, connVars, busVars, registry, owner, sess, http,
                   nextMsg, pool, failedOn, env>>

NextLocks ==
    \E t \in Callers :
        \/ RegistryLock(t)
        \/ RegistryBody(t)
        \/ IsEmptyLock(t)
        \/ IsEmptyReturn(t)
        \/ RemoveReturn(t)
        \/ StreamLock(t)
        \/ StreamBody(t)

SpecLocks == InitLocks /\ [][NextLocks]_vars

\* ------------------------------------------------------------------ claims

\* C1: with one writer and one reader on a DropOldest ring, the messages
\* returned by Read are a subsequence of the messages written, in write
\* order: ids strictly increase along the read log (no repeat, no inversion).
C1_ReadsAreSubsequenceOfWrites ==
    rb.strategy = BackpressureDropOldest =>
        \A i, j \in 1..Len(readLog) : i < j => readLog[i].id < readLog[j].id

\* A session is publishing when HandlePublish has put it in the publishing
\* state and its teardown has not begun; the key it publishes under is the
\* key of its Publisher's stream.
Publishing(i) ==
    /\ sess[i].state = StatePublishing
    /\ sess[i].pc \notin {"closeDetach", "closeRemove"}
PublishingKey(i) == heap[sess[i].publisher].key

\* C2: for every stream key, at most one RTMP session is publishing under it
\* at any time, whatever the interleaving of publish handling and teardown.
C2_OnePublishingSessionPerKey ==
    \A i, j \in Sessions :
        (i # j /\ Publishing(i) /\ Publishing(j)) => PublishingKey(i) # PublishingKey(j)

\* C3: at most one publisher is attached at any time; AttachPublisher returns
\* true exactly when the slot is empty and then holds the caller's id, and it
\* returns false and leaves the stream as it was when the slot is occupied.
C3_PublisherExclusivity ==
    /\ Cardinality(Holders(calls)) <= 1
    /\ \A k \in 1..Len(calls) :
         calls[k].op = "attach" =>
            /\ calls[k].ok = (calls[k].before.publisher = 0)
            /\ calls[k].ok => calls[k].after.publisher = calls[k].id
            /\ ~calls[k].ok => calls[k].after = calls[k].before

\* C3 witness: attach(1) true, attach(2) false, detach, attach(3) true.
C3_Witness ==
    /\ Len(calls) = 4
    /\ calls[1].op = "attach" /\ calls[1].id = 1 /\ calls[1].ok
    /\ calls[2].op = "attach" /\ calls[2].id = 2 /\ ~calls[2].ok
    /\ calls[3].op = "detach"
    /\ calls[4].op = "attach" /\ calls[4].id = 3 /\ calls[4].ok
    /\ bus.publisher = 3

\* C4: once the handler of a session has unwound, whatever ended it, no
\* stream's publisher slot is still held by an attach of that session.
C4_EndedSessionHoldsNoStream ==
    \A i \in Sessions :
        sess[i].pc = "ended" => \A st \in 1..Len(heap) : owner[st] # i

\* The part of a stream a rejected publish must leave alone.
Untouched(st) ==
    /\ heap'[st].publisher = heap[st].publisher
    /\ heap'[st].initVideo = heap[st].initVideo
    /\ heap'[st].initAudio = heap[st].initAudio
    /\ heap'[st].initMeta = heap[st].initMeta
    /\ heap'[st].subscribers = heap[st].subscribers

\* C5: when a session's publish is rejected because another session holds the
\* stream, the rejected session is closed (its handler unwinds through Close),
\* and none of its steps, the rejection included, changes the stream's
\* publisher, cached init messages or subscriber set.
C5_RejectedPublishLeavesStreamAlone ==
    [][\A i \in Sessions :
          (failedOn'[i] # 0 /\ sess'[i] # sess[i]) =>
              /\ sess'[i].pc \in {"closeDetach", "closeRemove", "ended"}
              /\ Untouched(failedOn'[i])]_vars

\* The subscribers the bus stream has created, and what each has read.
Attached == 1..Len(bus.subs)
ReadLog(id) == readers[id].log

\* The first reads of subscriber id are the init messages that were cached
\* when it attached, in replay order; what it reads after them is live.
InitFirst(id) ==
    \A k \in 1..Len(ReadLog(id)) :
        IF k <= Len(cachedAt[id])
        THEN ReadLog(id)[k].msg = cachedAt[id][k]
        ELSE ReadLog(id)[k].msg.id > 0

\* C6 as claimed: every subscriber first reads the init messages cached at
\* its attach, in the order metadata, video, audio, and live messages after
\* them, whatever the interleaving with Publish.
C6_InitReplayBeforeLive == \A id \in Attached : InitFirst(id)

\* C6 amended: the same for every subscriber whose ring has dropped no
\* message.
C6_InitReplayBeforeLiveNoDrop ==
    \A id \in Attached : Dropped(Buffer(bus, id)) = 0 => InitFirst(id)

\* C6 witness: a subscriber that attached inside a Publish of an init message
\* (after it was cached, before the snapshot) was replayed two init messages
\* or more, read them, and then read the live copy of that message.
C6_Witness ==
    \E id \in Attached :
        /\ Dropped(Buffer(bus, id)) = 0
        /\ Len(cachedAt[id]) >= 2
        /\ \E k \in 1..Len(ReadLog(id)) :
             /\ k > Len(cachedAt[id])
             /\ \E j \in 1..Len(cachedAt[id]) :
                  cachedAt[id][j].id = CloneId(ReadLog(id)[k].msg.id)

\* A live frame: a published message that is not an init message.
IsLive(m) == m.id > 0 /\ ~m.IsInit

\* Subscriber id has read the cached copy of init message m before every
\* live frame it has read.
ReadBeforeLive(id, m) ==
    \A p \in 1..Len(ReadLog(id)) :
        IsLive(ReadLog(id)[p].msg) =>
            \E q \in 1..(p - 1) : ReadLog(id)[q].msg = Clone(m)

\* C8 as claimed: for each kind, the init message most recently published
\* when a subscriber attached, if it was published before any subscriber
\* existed, is read by that subscriber before its first live frame.
C8_EarlyInitObserved ==
    \A id \in Attached : \A k \in Kinds :
        (latestAt[id][k].msg # NilMsg /\ latestAt[id][k].early)
            => ReadBeforeLive(id, latestAt[id][k].msg)

\* C8 amended: the same when DetachPublisher has not run between the
\* publication and the attach and the subscriber's ring has dropped nothing.
C8_EarlyInitObservedUnlessCleared ==
    \A id \in Attached : \A k \in Kinds :
        (/\ latestAt[id][k].msg # NilMsg
         /\ latestAt[id][k].early
         /\ ~latestAt[id][k].cleared
         /\ Dropped(Buffer(bus, id)) = 0)
            => ReadBeforeLive(id, latestAt[id][k].msg)

\* C8 witness: a subscriber attached after a second init message of a kind
\* had replaced the first, all before any subscriber existed, and has read a
\* live frame.
C8_Witness ==
    \E id \in Attached : \E k \in Kinds :
        /\ latestAt[id][k].msg # NilMsg
        /\ latestAt[id][k].early
        /\ ~latestAt[id][k].cleared
        /\ latestAt[id][k].msg.id > 1
        /\ published[1].Type = k
        /\ Dropped(Buffer(bus, id)) = 0
        /\ \E p \in 1..Len(ReadLog(id)) : IsLive(ReadLog(id)[p].msg)

\* C9: every replayed init message a subscriber reads (a cached copy) still
\* has IsInit set and the kind, timestamp and payload of the message that was
\* published, and the subscriber runtime writes a tag for it, with timestamp
\* 0, whether or not a keyframe has been seen.
C9_ReplayedInitForwarded ==
    \A id \in Attached : \A k \in 1..Len(ReadLog(id)) :
        LET rec == ReadLog(id)[k] IN
        rec.msg.id < 0 =>
            LET orig == published[CloneId(rec.msg.id)] IN
            /\ orig.IsInit
            /\ rec.msg.IsInit
            /\ rec.msg.Type = orig.Type
            /\ rec.msg.Timestamp = orig.Timestamp
            /\ rec.msg.Payload = orig.Payload
            /\ rec.forwarded
            /\ rec.ts = 0

\* C7: from the return of DetachPublisher until a publisher attaches again,
\* that is while the publisher slot is empty, the three init slots are empty,
\* so a subscriber attaching then is replayed nothing.
C7_InitSlotsEmptyWithoutPublisher ==
    \A st \in 1..Len(heap) :
        heap[st].publisher = 0 =>
            /\ heap[st].initVideo = NilMsg
            /\ heap[st].initAudio = NilMsg
            /\ heap[st].initMeta = NilMsg

\* C10: in a single-threaded run where no Write found the ring full, the
\* k-th successful Read returns the k-th written message, and when as many
\* messages were read as written the ring is empty (Read reports no message);
\* conversely a Read succeeds while written messages are still unread.
C10_SeqReadsEqualWrites ==
    Dropped(rb) = 0 =>
        /\ \A k \in 1..Len(readLog) : readLog[k] = TestMessage(k)
        /\ (Len(readLog) = nWritten) = (~Read(rb).ok)

\* C10 witness: more messages than the ring holds went through it without a
\* full ring, on a ring whose counters crossed the uint32 wrap.
C10_Witness ==
    /\ Dropped(rb) = 0
    /\ Len(readLog) > Index32(rb.size)
    /\ Len(readLog) = nWritten
    /\ Index32(rb.size) > 1
    /\ Lt32(rb.writePos, rb.size)

\* Every successful Read so far returned after the last Write call made.
ReadsFollowWrites == \A i \in 1..Len(readAt) : readAt[i] = nWritten

\* C11: on a DropOldest ring of capacity C driven by whole calls, after C + k
\* Write calls with no Read between them every Write has returned true,
\* dropped() is k, and the reads that follow return the last C messages
\* written, in write order: the i-th of them is message k + i, there are at
\* most C of them, and a further Read succeeds until C have been returned.
C11_DropOldestKeepsLastC ==
    LET C == Index32(rb.size)
        k == nWritten - C
    IN (rb.strategy = BackpressureDropOldest /\ ReadsFollowWrites /\ k >= 0) =>
        /\ Len(writeRets) = nWritten
        /\ \A i \in 1..Len(writeRets) : writeRets[i] = TRUE
        /\ Dropped(rb) = k
        /\ Len(readLog) <= C
        /\ \A i \in 1..Len(readLog) : readLog[i] = TestMessage(k + i)
        /\ (Len(readLog) < C) = Read(rb).ok

\* C11 witness: a DropOldest ring of capacity 2 took more writes than it
\* holds, and then two reads emptied it.
C11_Witness ==
    /\ rb.strategy = BackpressureDropOldest
    /\ Index32(rb.size) = 2
    /\ nWritten >= Index32(rb.size) + 2
    /\ ReadsFollowWrites
    /\ Len(readLog) = Index32(rb.size)

\* The ring holds as many unread messages as it has slots.
HoldsCapacity(rbuf) == Sub32(rbuf.writePos, rbuf.readPos) = rbuf.size

\* C12: a Write call on a DropNewest ring that holds its capacity returns
\* false, adds exactly one to dropped, and changes nothing else of the ring:
\* slots, write position and read position stay as they were, so the reads
\* that follow return what they would have returned without the call.
C12_DropNewestRejects ==
    [][(/\ rb.strategy = BackpressureDropNewest
        /\ HoldsCapacity(rb)
        /\ nWritten' = nWritten + 1)
       => (/\ writeRets' = Append(writeRets, FALSE)
           /\ rb' = [rb EXCEPT !.dropped = rb.dropped + 1]
           /\ Read(rb').msg = Read(rb).msg)]_vars

\* C12 witness: a DropNewest ring of capacity 2 rejected a Write, and the
\* two reads made afterwards returned the two messages queued before it.
C12_Witness ==
    /\ rb.strategy = BackpressureDropNewest
    /\ Index32(rb.size) = 2
    /\ Dropped(rb) >= 1
    /\ \E i \in 1..Len(writeRets) : writeRets[i] = FALSE
    /\ ReadsFollowWrites
    /\ readLog = <<TestMessage(1), TestMessage(2)>>

\* The number of atomic steps a Write call takes on a ring.
RECURSIVE WriteSteps(_, _)
WriteSteps(rbuf, w) ==
    IF w.pc = "done" THEN 0
    ELSE LET st == WriteStep(rbuf, w) IN 1 + WriteSteps(st.rb, st.loc)

\* The steps a Write takes at most: two loads, the drop count, the advance
\* of the read position, the slot store, the store of the write position.
MaxWriteSteps ==
    Cardinality({"loadW", "loadR", "count", "advance", "store", "publish"})

\* The steps a Write call in progress has left at most, by its position.
WriteLeft(w) ==
    CASE w.pc = "loadW"   -> 6
      [] w.pc = "loadR"   -> 5
      [] w.pc = "count"   -> 4
      [] w.pc = "advance" -> 3
      [] w.pc = "store"   -> 2
      [] w.pc = "publish" -> 1
      [] OTHER            -> 0

\* The steps a Publish call in progress still has to take at most: the
\* snapshot and one Write per subscriber, or what is left of the Write in
\* progress and the Writes to the rest of the snapshot taken.
PublishLeft(call) ==
    CASE call.pc = "idle"     -> 0
      [] call.pc = "snapshot" -> 1 + MaxSubscribers * MaxWriteSteps
      [] call.pc = "write"    ->
            (Len(call.snapshot) - 1) * MaxWriteSteps + WriteLeft(call.write)

\* The step is one of the Publish call in progress.
PublishStepped == pubCall.pc # "idle" /\ pubCall' # pubCall

\* C13: a Publish call that has begun completes, with only the publishing
\* goroutine assumed to run (no consumer needs to read); its next step is
\* always possible, each of its steps brings it strictly closer to the end
\* (no step is repeated, whatever the Write returned), and every Write it
\* makes, into a full ring or not, takes at most MaxWriteSteps steps.
C13_PublishNeverWaits ==
    /\ (pubCall.pc # "idle") ~> (pubCall.pc = "idle")
    /\ [](pubCall.pc # "idle" => ENABLED (StreamSnapshot \/ StreamWrite))
    /\ [][PublishStepped => PublishLeft(pubCall') < PublishLeft(pubCall)]_vars
    /\ [](pubCall.pc = "write" =>
            WriteSteps(Buffer(bus, Head(pubCall.snapshot)), WriteCall(pubCall.msg))
                <= MaxWriteSteps)

\* C13 witness: Publish calls completed on a stream with a subscriber that
\* never read and whose ring has overflowed.
C13_Witness ==
    /\ pubCall.pc = "idle"
    /\ Len(published) >= 2
    /\ \E id \in bus.subscribers :
         /\ readers[id].log = <<>>
         /\ Dropped(Buffer(bus, id)) >= 1
         /\ HoldsCapacity(Buffer(bus, id))

\* The messages queued in a ring, oldest first.
RingQueue(rbuf) ==
    [i \in 1..Index32(Sub32(rbuf.writePos, rbuf.readPos)) |->
        rbuf.buffer[SlotIndex(rbuf, Add32(rbuf.readPos, U32(i - 1)))]]

\* What subscriber id has been handed so far: what it read, then what is
\* still queued for it.
Delivered(id) ==
    [k \in 1..Len(ReadLog(id)) |-> ReadLog(id)[k].msg] \o RingQueue(Buffer(bus, id))

\* The number of Publish calls that are through with subscriber id: all the
\* calls made, less the one in progress if its Write to id is still to come.
Served(id) ==
    CASE pubCall.pc = "idle"     -> Len(published)
      [] pubCall.pc = "snapshot" -> Len(published) - 1
      [] pubCall.pc = "write"    ->
            IF \E k \in 1..Len(pubCall.snapshot) : pubCall.snapshot[k] = id
            THEN Len(published) - 1 ELSE Len(published)

\* What subscriber id is owed: the init messages replayed at its attach, then
\* every message of a Publish call that took its snapshot after the attach.
Owed(id) == cachedAt[id] \o SubSeq(published, snapAt[id] + 1, Served(id))

\* The Write calls made on the ring of subscriber id: those that stored a
\* message, and on a DropNewest ring those that were rejected.
Offered(id) ==
    Index32(Buffer(bus, id).writePos)
        + IF Buffer(bus, id).strategy = BackpressureDropNewest
          THEN Dropped(Buffer(bus, id)) ELSE 0

\* C14: for every subscriber still attached, each message of a Publish call
\* that took its snapshot after the subscriber attached has been written to
\* the subscriber's ring once the call is through with it (as many Write
\* calls were made on the ring as messages are owed), and a subscriber whose
\* own ring dropped nothing has been handed exactly the owed messages, in
\* publish order, whatever the rings of the other subscribers dropped.
C14_FanoutReachesEverySubscriber ==
    \A id \in bus.subscribers :
        /\ Offered(id) = Len(Owed(id))
        /\ Dropped(Buffer(bus, id)) = 0 => Delivered(id) = Owed(id)

\* C14 witness: two subscribers attached before the first Publish; the ring
\* of one overflowed, the other dropped nothing, has read, and was handed
\* both published messages.
C14_Witness ==
    /\ pubCall.pc = "idle"
    /\ Len(published) = 2
    /\ \E a, b \in bus.subscribers :
         /\ a # b
         /\ snapAt[a] = 0
         /\ snapAt[b] = 0
         /\ Dropped(Buffer(bus, a)) >= 1
         /\ Dropped(Buffer(bus, b)) = 0
         /\ Len(ReadLog(b)) >= 1
         /\ Len(Delivered(b)) = 2

\* Key k has an entry whose stream has neither a publisher nor a subscriber.
Removable(k) ==
    /\ registry[k] # 0
    /\ heap[registry[k]].publisher = 0
    /\ heap[registry[k]].subscribers = {}

\* The registry without the entry of key k.
Without(k) == [j \in Keys |-> IF j = k THEN 0 ELSE registry[j]]

\* C15: in every state the service reaches and for every key, RemoveIfEmpty
\* returns true exactly when the key has an entry whose stream has no
\* publisher and no subscribers; it then leaves the registry without that
\* entry and all other entries as they were, and otherwise leaves the
\* registry as it was. The RemoveIfEmpty of a closing session changes the
\* registry in just that way.
C15_RemoveIfEmptyExact ==
    /\ [](\A k \in Keys :
            LET r == RemoveIfEmpty(registry, heap, k) IN
                /\ r.ok = Removable(k)
                /\ r.reg = IF Removable(k) THEN Without(k) ELSE registry)
    /\ [][\A i \in Sessions :
            (sess[i].pc = "closeRemove" /\ sess'[i].pc # "closeRemove") =>
                LET k == heap[sess[i].publisher].key IN
                    registry' = IF Removable(k) THEN Without(k) ELSE registry]_vars

\* C15 witness: a closing session's RemoveIfEmpty took an empty stream out of
\* the registry while another session's RemoveIfEmpty is about to find a
\* stream that a subscriber keeps in it.
C15_Witness ==
    /\ \E st \in 1..Len(heap) :
         /\ registry[heap[st].key] # st
         /\ heap[st].publisher = 0
         /\ heap[st].subscribers = {}
    /\ \E i \in Sessions :
         /\ sess[i].pc = "closeRemove"
         /\ registry[heap[sess[i].publisher].key] # 0
         /\ ~Removable(heap[sess[i].publisher].key)

\* A Remove of key k succeeded among calls i+1 .. j-1.
RemovedBetween(k, i, j) ==
    \E m \in (i + 1)..(j - 1) :
        calls[m].op = "Remove" /\ calls[m].key = k /\ calls[m].ok

\* C16: among the GetOrCreate(key) calls made on a registry with no
\* successful removal of the key between them, whatever order the callers
\* got the mutex in, all return the same stream instance, exactly one (the
\* first) reports created = true, and after them the registry's entry for the
\* key is that one instance.
C16_GetOrCreateOneInstance ==
    \A j \in 1..Len(calls) :
        calls[j].op = "GetOrCreate" =>
            LET k == calls[j].key
                earlier == {i \in 1..(j - 1) :
                              /\ calls[i].op = "GetOrCreate"
                              /\ calls[i].key = k
                              /\ ~RemovedBetween(k, i, j)}
            IN /\ calls[j].ok = (earlier = {})
               /\ \A i \in earlier : calls[i].stream = calls[j].stream
               /\ ~RemovedBetween(k, j, Len(calls) + 1)
                     => registry[k] = calls[j].stream
               /\ heap[calls[j].stream].key = k

\* C16 witness: three GetOrCreate calls for one key with no removal between
\* them, and a GetOrCreate for the other key among them.
C16_Witness ==
    \E k \in Keys :
        /\ Cardinality({j \in 1..Len(calls) :
                calls[j].op = "GetOrCreate" /\ calls[j].key = k}) = 3
        /\ ~RemovedBetween(k, 0, Len(calls) + 1)
        /\ \E j \in 1..Len(calls) : calls[j].op = "GetOrCreate" /\ calls[j].key # k

\* Key k has an entry whose stream is idle: no publisher, no subscriber.
IdleEntry(k) == registry[k] # 0 /\ IsEmpty(heap[registry[k]])

\* C17: whenever a key's registered stream is idle, the entry eventually
\* leaves the registry (Get returns nil, List omits the key) or the stream is
\* taken up again, whether the publisher or a subscriber was last to leave.
C17_IdleStreamEventuallyRemoved ==
    \A k \in Keys : IdleEntry(k) ~> ~IdleEntry(k)

\* The subscriber of request handler h is still in its stream's subscriber set.
StillSubscribed(h) ==
    /\ http[h].subscriberID # 0
    /\ http[h].subscriberID \in heap[http[h].stream].subscribers

\* C18: once the client of an attached subscriber has disconnected, the
\* handler eventually leaves ProcessMessages and the subscriber is no longer
\* in the stream's subscriber set, also when no message arrives any more.
C18_DisconnectedSubscriberDetaches ==
    \A h \in HttpHandlers :
        (http[h].clientGone /\ StillSubscribed(h))
            ~> (http[h].pc = "done" /\ ~StillSubscribed(h))

\* A video message whose payload's first byte has upper nibble 1.
KeyframeByte(m) ==
    m.Type = MessageTypeVideo /\ Len(m.Payload) >= 1 /\ m.Payload[1] \div 16 = 1

\* The k-th message subscriber id read was written to its response as a tag
\* and does not carry the init flag.
EmittedNonInit(id, k) == ReadLog(id)[k].forwarded /\ ~ReadLog(id)[k].msg.IsInit

\* C19: for every subscriber, a message read from its queue without the init
\* flag is emitted only if that message or one read before it is a video
\* message whose first payload byte has upper nibble 1; so the first video
\* tag emitted for a message without the init flag is such a keyframe, and no
\* audio tag for a message without the init flag is emitted before it.
C19_NothingLiveBeforeKeyframe ==
    \A id \in Attached :
        \A k \in 1..Len(ReadLog(id)) :
            EmittedNonInit(id, k) =>
                /\ \E j \in 1..k : KeyframeByte(ReadLog(id)[j].msg)
                /\ \E j \in 1..k :
                     /\ EmittedNonInit(id, j)
                     /\ KeyframeByte(ReadLog(id)[j].msg)
                     /\ \A i \in 1..(j - 1) : ~EmittedNonInit(id, i)

\* C19 witness: a subscriber read an audio frame and an inter frame before
\* the first keyframe, emitted neither, then emitted the keyframe and the
\* audio frame that followed it.
C19_Witness ==
    \E id \in Attached :
        /\ Len(ReadLog(id)) = 4
        /\ ReadLog(id)[1].msg.Type = MessageTypeAudio
        /\ ~ReadLog(id)[1].msg.IsInit
        /\ ~ReadLog(id)[1].forwarded
        /\ ReadLog(id)[2].msg.Type = MessageTypeVideo
        /\ ~ReadLog(id)[2].forwarded
        /\ EmittedNonInit(id, 3)
        /\ KeyframeByte(ReadLog(id)[3].msg)
        /\ EmittedNonInit(id, 4)
        /\ ReadLog(id)[4].msg.Type = MessageTypeAudio

\* C20: for every subscriber, the first tag it emits for a message without
\* the init flag has timestamp 0, whatever the timestamp of that message.
C20_FirstLiveTagAtZero ==
    \A id \in Attached :
        \A k \in 1..Len(ReadLog(id)) :
            (EmittedNonInit(id, k) /\ \A i \in 1..(k - 1) : ~EmittedNonInit(id, i))
                => ReadLog(id)[k].ts = 0

\* C20 witness: a subscriber emitted a first live tag for a message stamped
\* later than 0, and a later live tag at the distance between the two stamps.
C20_Witness ==
    \E id \in Attached :
        \E k, n \in 1..Len(ReadLog(id)) :
            /\ k < n
            /\ EmittedNonInit(id, k)
            /\ \A i \in 1..(k - 1) : ~EmittedNonInit(id, i)
            /\ ReadLog(id)[k].msg.Timestamp > 0
            /\ ReadLog(id)[k].ts = 0
            /\ EmittedNonInit(id, n)
            /\ ReadLog(id)[n].ts = ReadLog(id)[n].msg.Timestamp - ReadLog(id)[k].msg.Timestamp
            /\ ReadLog(id)[n].ts > 0

\* The publisher's timestamps never go back.
SourceMonotone ==
    \A i, j \in 1..Len(published) :
        i <= j => published[i].Timestamp <= published[j].Timestamp

\* C21: for every subscriber, when the publisher's timestamps never go back,
\* the timestamps of the tags emitted from the first tag for a message
\* without the init flag onwards never go back either, whatever the ring
\* dropped in between.
C21_EmittedTimestampsMonotone ==
    SourceMonotone =>
        \A id \in Attached :
            \A f, k, n \in 1..Len(ReadLog(id)) :
                (/\ f <= k /\ k < n
                 /\ EmittedNonInit(id, f)
                 /\ ReadLog(id)[k].forwarded
                 /\ ReadLog(id)[n].forwarded)
                    => ReadLog(id)[k].ts <= ReadLog(id)[n].ts

\* C22: a session's state changes only from handshaking to connected (by the
\* handshake step, which succeeded), from connected to publishing (by the
\* step of a publish command that obtained the publisher slot), or from any
\* state but closed to closed; a closed session stays closed.
C22_SessionStateMovesForward ==
    [][\A i \in Sessions :
         LET a == sess[i].state
             b == sess'[i].state
         IN a # b =>
              /\ a # StateClosed
              /\ b # StateHandshaking
              /\ b = StateConnected =>
                    a = StateHandshaking /\ sess[i].pc = "handshake"
              /\ b = StatePublishing =>
                    /\ a = StateConnected
                    /\ sess[i].pc = "pubAttach"
                    /\ AttachPublisher(heap[sess[i].stream], 1).ok
                    /\ owner'[sess'[i].publisher] = i]_vars

\* C22 witness: a session that went through handshaking, connected and
\* publishing and was closed by a deleteStream command, its handler still in
\* the loop, with another session publishing.
C22_Witness ==
    \E i, j \in Sessions :
        /\ i # j
        /\ sess[i].state = StateClosed
        /\ sess[i].publisher # 0
        /\ sess[i].pc = "loop"
        /\ sess[j].state = StatePublishing

\* ---- claims on the RTMP connection (SpecConn)
\* The name of a received command message, <<>> when it has none.
CommandName(e) ==
    IF e.msgType # MessageTypeCommandAMF0 THEN <<>>
    ELSE Bind(DecodeCommand(e.body), LAMBDA d :
            IF d.err \/ d.arr = <<>> THEN <<>>
            ELSE IF d.arr[1].t # "string" THEN <<>>
            ELSE d.arr[1].s)

\* The values of a command body, each read back with Decode.
RECURSIVE DecodeEach(_, _)
DecodeEach(r, arr) ==
    IF r = <<>> THEN arr
    ELSE Bind(Decode(r), LAMBDA v :
            IF ~v.ok THEN arr ELSE DecodeEach(v.rest, Append(arr, v.val)))

DecodeCommandAll(r) ==
    Bind(Decode(r), LAMBDA cmdName :
       IF ~cmdName.ok THEN [arr |-> <<>>, err |-> TRUE]
       ELSE [arr |-> DecodeEach(cmdName.rest, <<cmdName.val>>), err |-> FALSE])

\* The values the client put in a received command message.
CommandSent(e) == DecodeCommandAll(e.body).arr

\* The messages the server wrote from the turn that completed inbox[k] up to
\* the turn that completed the next received message.
RepliesTo(k) ==
    SubSeq(wire, inbox[k].wireAt + 1,
           IF k < Len(inbox) THEN inbox[k + 1].wireAt ELSE Len(wire))

TypesOf(msgs) == [j \in DOMAIN msgs |-> msgs[j].msgType]

IsPrefix(a, b) == Len(a) <= Len(b) /\ a = SubSeq(b, 1, Len(a))

ConnectReplyTypes ==
    <<MessageTypeWinAckSize, MessageTypeSetPeerBandwidth, MessageTypeSetChunkSize,
      MessageTypeCommandAMF0>>

\* C23: what the server writes in response to a connect command is, in this
\* order, a message of type 5, of type 6, of type 1, then the command
\* message of type 20, and nothing else before it; it stops short of the four
\* only when a write failed, which ends the handler.
C23_ConnectReplyOrder ==
    \A k \in DOMAIN inbox :
        CommandName(inbox[k]) = StrConnect =>
            /\ IsPrefix(TypesOf(RepliesTo(k)), ConnectReplyTypes)
            /\ TypesOf(RepliesTo(k)) # ConnectReplyTypes => conn.pc = "done"

C23_Witness ==
    \E k \in DOMAIN inbox :
        /\ CommandName(inbox[k]) = StrConnect
        /\ TypesOf(RepliesTo(k)) = ConnectReplyTypes
        /\ conn.pc = "loop"
        /\ inbox[k].wireAt = 0

\* C24: every command message the server writes is the plain sequence of its
\* AMF0 values: its first byte is the String marker 0x02 of the command
\* name, never the StrictArray marker 0x0A.
C24_CommandsStartWithString ==
    \A k \in DOMAIN wire :
        wire[k].msgType = MessageTypeCommandAMF0 =>
            /\ wire[k].body[1] = TypeString
            /\ wire[k].body[1] # TypeStrictArray

\* The app a connect command carries in its command object, "live" without
\* one; the stream name of a publish command, after the null when there is
\* one.
ClientApp(sent) ==
    IF Len(sent) >= 3 /\ sent[3].t = "object"
       /\ FieldOf(sent[3].fields, StrApp).t = "string"
    THEN FieldOf(sent[3].fields, StrApp).s
    ELSE StrLive

ClientStreamName(sent) == IF sent[3] = AmfNull THEN sent[4].s ELSE sent[3].s

\* The received connect command that precedes inbox[k], 0 when there is none.
ConnectBefore(k) ==
    IF \E j \in 1..(k - 1) : CommandName(inbox[j]) = StrConnect
    THEN CHOOSE j \in 1..(k - 1) :
            /\ CommandName(inbox[j]) = StrConnect
            /\ \A i \in (j + 1)..(k - 1) : CommandName(inbox[i]) # StrConnect
    ELSE 0

\* C25: once a publish command that follows a connect has been handled on a
\* connection whose writes succeed, the session is in Publishing and is the
\* publisher of the registry's stream keyed by the app of the connect command
\* and the stream name of the publish command.
C25_PublishMakesPublisher ==
    \A k \in DOMAIN inbox :
        (/\ k = Len(inbox)
         /\ CommandName(inbox[k]) = StrPublish
         /\ ConnectBefore(k) # 0
         /\ ~conn.broken)
        => LET key == NewStreamKey(ClientApp(CommandSent(inbox[ConnectBefore(k)])),
                                   ClientStreamName(CommandSent(inbox[k])))
           IN /\ conn.s.state = StatePublishing
              /\ conn.s.publisher # 0
              /\ conn.s.registry[key] = conn.s.publisher
              /\ conn.s.heap[conn.s.publisher].publisher # 0

\* C26: a connect command received on a session that has already handled one
\* is an error: once it has been handled the handler has ended and the
\* session is closed.
C26_SecondConnectCloses ==
    \A k \in DOMAIN inbox :
        (CommandName(inbox[k]) = StrConnect /\ ConnectBefore(k) # 0)
        => conn.pc = "done" /\ conn.s.state = StateClosed

\* C27: the incoming chunk size changes only in a turn that completes a
\* Set-Chunk-Size message of the client, and it becomes the size the message
\* carries; a turn that handles connect on a working connection sets the
\* outgoing chunk size to 4096 and leaves the incoming one as it was.
C27_IncomingChunkSizeFollowsPeer ==
    [][/\ conn'.s.parser.chunkSize # conn.s.parser.chunkSize =>
            /\ Len(inbox') = Len(inbox) + 1
            /\ inbox'[Len(inbox')].msgType = MessageTypeSetChunkSize
            /\ conn'.s.parser.chunkSize = U32BE(inbox'[Len(inbox')].body)
       /\ (/\ Len(inbox') = Len(inbox) + 1
           /\ CommandName(inbox'[Len(inbox')]) = StrConnect
           /\ ~conn'.broken) =>
            /\ conn'.s.chunkSize = ServerChunkSize
            /\ conn'.s.parser.chunkSize = conn.s.parser.chunkSize]_vars

C27_Witness ==
    /\ conn.s.chunkSize = ServerChunkSize
    /\ conn.s.parser.chunkSize = MediumChunkSize
    /\ CommandName(inbox[Len(inbox)]) = StrConnect

\* The client's view of its k-th chunk: the chunk that started its message,
\* the payloads of the message's chunks up to it, one after the other, and
\* whether it is the last chunk of the message.
PeerMessageStart(k) ==
    CHOOSE j \in 1..k :
        /\ peer.plan[j].csID = peer.plan[k].csID
        /\ peer.plan[j].start
        /\ \A i \in (j + 1)..k :
              peer.plan[i].csID = peer.plan[k].csID => ~peer.plan[i].start

RECURSIVE PeerPayloads(_, _, _)
PeerPayloads(j, k, csID) ==
    IF j > k THEN <<>>
    ELSE (IF peer.plan[j].csID = csID THEN peer.plan[j].payload ELSE <<>>)
            \o PeerPayloads(j + 1, k, csID)

PeerBody(k) == PeerPayloads(PeerMessageStart(k), k, peer.plan[k].csID)

PeerCompletes(k) == Len(PeerBody(k)) = peer.plan[k].length

\* C28: when the chunk read in a turn is the last of a message the client
\* split into chunks, GetCompleteMessage returns in that turn a body equal to
\* the payloads of the message's chunks one after the other, whatever the
\* formats of the chunk headers and whatever chunks of other chunk streams
\* came between them.
C28_BodyIsPayloadsInOrder ==
    \A k \in 1..conn.turns :
        PeerCompletes(k) =>
            \E n \in DOMAIN inbox :
                /\ inbox[n].at = k
                /\ inbox[n].csID = peer.plan[k].csID
                /\ inbox[n].body = PeerBody(k)

\* C29: in a turn that reads a format-3 chunk, the timestamp of its chunk
\* stream goes up by the stored delta when the chunk starts a message
\* (bytesRead = 0) and stays as it is when the chunk continues one.
C29_Format3AddsDeltaOnce ==
    [][(conn'.turns = conn.turns + 1 /\ BasicHeader(inbuf).fmt = ChunkFmt3) =>
          LET csID == BasicHeader(inbuf).csID
              cs == ChunkStreamOf(conn.s.parser, csID)
          IN conn'.s.parser.chunkStreams[csID].timestamp =
                IF cs.bytesRead = U32(0)
                THEN Add32(cs.timestamp, cs.timestampDelta)
                ELSE cs.timestamp]_vars

\* The number of bytes of the client's first k chunks.
RECURSIVE PeerBytes(_)
PeerBytes(k) ==
    IF k = 0 THEN 0 ELSE PeerBytes(k - 1) + Len(ChunkBytes(peer.plan[k]))

\* C30: the session's counter of received bytes is the number of bytes the
\* handler has read from the client, and no acknowledgement is owed: with a
\* window announced, the count is less than a window ahead of the count last
\* acknowledged.
C30_CounterIsBytesReceived ==
    /\ conn.s.inAckSize = U32(PeerBytes(conn.turns))
    /\ (conn.s.ackSize # U32(0) /\ ~conn.broken) =>
          Lt32(Sub32(conn.s.inAckSize, conn.s.inLastAck), conn.s.ackSize)

\* ---- claims on the HTTP-FLV handler (Spec)
\* A path of the form /{app}/{name}.flv: it ends with the extension, and
\* after its leading slash there is a slash between app and name.
WellFormedPath(path) ==
    /\ Len(path) > 0
    /\ path[Len(path)] = ".flv"
    /\ \E i \in 1..Len(path) :
          path[i] = "/" /\ (i > 1 \/ (Len(path) > 0 /\ path[1] # "/"))

\* The stream object registered for the path's app and name (0 = none).
RegisteredFor(path) ==
    IF \E k \in Keys : registry[k] # 0 /\ path = FlvPath(k.app, k.name)
    THEN registry[CHOOSE k \in Keys : path = FlvPath(k.app, k.name)]
    ELSE 0

RefusalCodes == {StatusMethodNotAllowed, StatusBadRequest, StatusNotFound}

\* C31: a step of a request handler answers 405 when the method is not GET,
\* 400 when the method is GET and the path is malformed, 404 when the path
\* is well formed and the registry holds no stream for it, and 404 when the
\* stream it found has no publisher; a handler that answers one of these has
\* attached no subscriber: it holds no subscriber id, has written no body,
\* and its step left every stream as it was.
C31_RefusedRequests ==
    [][\A h \in HttpHandlers :
         http'[h] # http[h] =>
            LET req == http'[h].req
                w   == http'[h].w
            IN /\ (http[h].pc = "idle" /\ req.method # "GET") =>
                     w.code = StatusMethodNotAllowed
               /\ (http[h].pc = "idle" /\ req.method = "GET"
                      /\ ~WellFormedPath(req.path)) =>
                     w.code = StatusBadRequest
               /\ (http[h].pc = "idle" /\ req.method = "GET"
                      /\ WellFormedPath(req.path) /\ RegisteredFor(req.path) = 0) =>
                     w.code = StatusNotFound
               /\ (http[h].pc = "hasPublisher"
                      /\ ~HasPublisher(heap[http[h].stream])) =>
                     w.code = StatusNotFound
               /\ w.code \in RefusalCodes =>
                     /\ http'[h].pc = "done"
                     /\ http'[h].subscriberID = 0
                     /\ w.body = <<>>
                     /\ heap' = heap]_vars

\* A handler has answered 404 for a registered stream without publisher.
C31_Witness ==
    \E h \in HttpHandlers :
        /\ http[h].pc = "done"
        /\ http[h].stream # 0
        /\ http[h].w.code = StatusNotFound
        /\ http[h].subscriberID = 0

\* C32: a handler that has attached its subscriber or written a byte of the
\* FLV body sent the header fields Content-Type: video/x-flv, Cache-Control:
\* no-cache and Connection: keep-alive with its status line.
C32_HeadersBeforeBody ==
    \A h \in HttpHandlers :
        (http[h].pc = "process" \/ http[h].w.body # <<>>) =>
            /\ http[h].w.code = StatusOK
            /\ {<<"Content-Type", "video/x-flv">>, <<"Cache-Control", "no-cache">>,
                <<"Connection", "keep-alive">>} \subseteq http[h].w.sent

\* ---- claims on the pools (Spec)
\* C33: when no connection handler and no HTTP handler is running any more,
\* each pool has had as many Puts as Gets: what the sessions acquired has
\* been released.
C33_PoolsBalanced ==
    (/\ \A i \in Sessions : sess[i].pc \in {"absent", "ended"}
     /\ \A h \in HttpHandlers : http[h].pc \in {"idle", "done"}) =>
        /\ pool.messagePuts = pool.messageGets
        /\ pool.payloadPuts = pool.payloadGets

\* ---- claims on the concurrent ring (SpecRing)
\* C34: in every state of a ring with a writer and a reader running
\* concurrently, the distance from the read position to the write position
\* is at most the capacity, and so is the number of free slots Available
\* reports.
C34_UsedWithinCapacity ==
    /\ Geq32(rb.size, Sub32(rb.writePos, rb.readPos))
    /\ Geq32(rb.size, Available(rb))

\* The messages in the slots from the read position up to the write position.
Queued == {rb.buffer[SlotIndex(rb, Add32(rb.readPos, U32(k)))].id :
              k \in 0..(Index32(Sub32(rb.writePos, rb.readPos)) - 1)}

Quiescent == wr.pc = "idle" /\ rd.pc = "idle"

\* C38: when no Write and no Read is in progress, the number of messages
\* written is the number of messages Read returned plus dropped() plus the
\* number queued, and dropped() is the number of written messages that were
\* neither returned by Read nor are queued.
C38_DroppedCountsLostMessages ==
    Quiescent =>
        /\ Geq32(rb.size, Sub32(rb.writePos, rb.readPos))
        /\ nWritten = Len(readLog) + Dropped(rb)
                        + Index32(Sub32(rb.writePos, rb.readPos))
        /\ Dropped(rb) =
              Cardinality((1..nWritten) \ ({readLog[i].id : i \in DOMAIN readLog}
                                           \cup Queued))

\* ---- claims on session teardown and the registry (Spec)
\* C35: when ServiceSession.Close of a session detaches the publisher of a
\* stream whose publisher slot another session holds, the stream keeps its
\* publisher and its cached init messages.
C35_TeardownSparesOtherPublisher ==
    [][\A i \in Sessions :
         (/\ sess[i].pc = "closeDetach"
          /\ sess'[i].pc = "closeRemove"
          /\ owner[sess[i].publisher] \notin {0, i}) =>
             LET before == heap[sess[i].publisher]
                 after  == heap'[sess[i].publisher]
             IN /\ after.publisher = before.publisher
                /\ after.initVideo = before.initVideo
                /\ after.initAudio = before.initAudio
                /\ after.initMeta = before.initMeta]_vars

\* C36: every stream object with a publisher or a subscriber attached is the
\* object the registry holds under the stream's key.
C36_AttachedStreamIsRegistered ==
    \A st \in DOMAIN heap :
        (HasPublisher(heap[st]) \/ SubscriberCount(heap[st]) > 0) =>
            Get(registry, heap[st].key) = st

\* ---- claims on attach during Publish (SpecStream)
\* How many copies of published message m, the message itself or its cached
\* clone, subscriber id has been handed.
Copies(id, m) ==
    Cardinality({k \in 1..Len(Delivered(id)) :
                    Delivered(id)[k].id \in {m.id, CloneId(m.id)}})

\* Init message number n concerns subscriber id: its clone was in the cache
\* when id attached, or its Publish took the subscriber snapshot after id
\* attached and is through with id.
Concerns(id, n) ==
    \/ \E j \in 1..Len(cachedAt[id]) : cachedAt[id][j].id = CloneId(published[n].id)
    \/ n > snapAt[id] /\ n <= Served(id)

\* C37: a subscriber that is attached and whose ring has dropped nothing
\* has been handed each init message that concerns it exactly once, as the
\* replayed clone or as the live message, whatever the interleaving of its
\* AttachSubscriber with the Publish of that message.
C37_InitHandedOnce ==
    \A id \in Attached :
        (id \in bus.subscribers /\ Dropped(Buffer(bus, id)) = 0) =>
            \A n \in 1..Len(published) :
                (published[n].IsInit /\ Concerns(id, n)) =>
                    Copies(id, published[n]) = 1

\* ---- claims on WriteChunk and the ChunkParser (SpecChunk)
\* C39: the messages the receiver has completed are the first messages the
\* sender wrote, each with its chunk stream id, type, timestamp, message
\* stream id and body; and when the sender has written every message and the
\* receiver has no whole chunk left to read, every byte has been read and
\* every message completed.
C39_WriteChunkRoundTrip ==
    /\ IsPrefix(inbox, peer.plan)
    /\ (peer.sent = Len(peer.plan) /\ ~ChunkReadable) =>
          /\ inbuf = <<>>
          /\ inbox = peer.plan

\* ------------------------------- claims on the two mutexes (SpecLocks)
HoldsRegistry(g) == \E i \in 1..Len(g.held) : g.held[i].mutex = RegistryMutex

HoldsStream(g) == \E i \in 1..Len(g.held) : g.held[i].mutex.of = "stream"

\* C40: no goroutine ever holds the registry mutex and a stream mutex at
\* the same time.
C40_NeverBothMutexes ==
    \A t \in DOMAIN goroutines :
        ~(HoldsRegistry(goroutines[t]) /\ HoldsStream(goroutines[t]))

\* C40, amended: a goroutine holds a stream mutex together with the registry
\* mutex only inside the IsEmpty call of Remove; it took the registry's
\* write lock first and the stream's read lock second. A goroutine that
\* holds a stream mutex otherwise holds nothing else and is inside a Stream
\* method, so the registry mutex is never taken under a stream mutex.
C40_RegistryThenStream ==
    \A t \in DOMAIN goroutines :
        LET g == goroutines[t]
        IN /\ (HoldsRegistry(g) /\ HoldsStream(g)) =>
                 /\ g.op = "Remove"
                 /\ g.pc = "isEmptyLocked"
                 /\ g.held = <<[mutex |-> RegistryMutex, mode |-> "w"],
                               [mutex |-> StreamMutex(g.target), mode |-> "r"]>>
           /\ (HoldsStream(g) /\ ~HoldsRegistry(g)) =>
                 /\ g.pc = "streamLocked"
                 /\ g.held = <<[mutex |-> StreamMutex(g.stream), mode |-> "w"]>>
           /\ (g.pc = "idle") => (g.held = <<>>)

\* Remove is inside IsEmpty on a registered stream while the other
\* goroutine, which holds that stream, waits for the registry mutex or has
\* finished a call.
C40_Witness ==
    \E t \in DOMAIN goroutines :
        /\ goroutines[t].pc = "isEmptyLocked"
        /\ Len(goroutines[t].held) = 2
        /\ \E u \in DOMAIN goroutines \ {t} :
               goroutines[u].stream = goroutines[t].target

====
